---- MODULE Spec2Model ----
(***************************************************************************)
(* SonicGuessr: the daily track curation pipeline.                         *)
(*                                                                         *)
(* Three components, each with its own specification over shared           *)
(* variables:                                                              *)
(*   Spec        the scheduler (startDailyJob) and curateDailySongs on the *)
(*               shared SQLite connection                                  *)
(*   SpecMatch   findBestSpotifyMatch, scripts/enrich_songs_with_spotify.js*)
(*   SpecTracks  getTracksForDailyChallenge, services/music-source-service *)
(*                                                                         *)
(* The repository holds several revisions of jobs/daily-song-curator.js:   *)
(*   "catalog"    src/unnamed/part_013 lines 18-186  (curated_songs based) *)
(*   "promiseAll" src/unnamed/part_013 lines 355-481 (music-source-service *)
(*                tracks, inserts gathered with Promise.all)               *)
(*   "playlist"   src/song-guesser-api/jobs/daily-song-curator.js 16-93    *)
(*                (playlist tracks, inserts queued under db.serialize)     *)
(* The variable `variant` fixes which revision a behaviour runs.           *)
(***************************************************************************)
EXTENDS Integers, Sequences, FiniteSets, TLC

(* ------------------------------ bounds -------------------------------- *)

\* config.js reads DAILY_SONG_COUNT from the environment (default 10).
DAILY_SONG_COUNT == 2
\* Database statements that may fail for a reason outside the program
\* (SQLITE_BUSY, I/O error) in one behaviour.
MaxFaults == 1

(* ------------------------------ domains ------------------------------- *)

Variants == {"catalog", "promiseAll", "playlist"}
\* The two triggers startDailyJob installs: the startup run and the cron run.
Runs == {"startup", "cron"}
\* Rows of curated_songs; row s carries spotify_track_id s (UNIQUE).
CatalogIds == 1..DAILY_SONG_COUNT
\* Spotify track ids the external sources hand out.
SourceIds == {1, 2}
\* Calendar days (UTC) the clock runs through.
Days == {1, 2}
NULL == 0

VARIABLES
    variant,           \* revision of curateDailySongs in use
    today,             \* getTodayDateString(): the current UTC day
    daily_challenges,  \* table daily_challenges as the shared connection sees it
    curated_songs,     \* table curated_songs as the shared connection sees it
    inTransaction,     \* the shared connection has an open transaction
    txSnapshot,        \* both tables as they were at BEGIN (restored by ROLLBACK)
    run,               \* per trigger: the position and locals of its run
    faults             \* injected statement failures so far

cvars == <<variant, today, daily_challenges, curated_songs, inTransaction,
           txSnapshot, run, faults>>

\* scripts/enrich_songs_with_spotify.js: one call of findBestSpotifyMatch
VARIABLES
    localSong,         \* the curated_songs row being enriched: title, artist
    spotifyResults,    \* the search results handed to the matcher
    matchPc,           \* "call" before the call, "returned" after it
    returned           \* index in spotifyResults of the match, NULL for null

mvars == <<localSong, spotifyResults, matchPc, returned>>

\* services/music-source-service.js: one call of getTracksForDailyChallenge
VARIABLES
    serviceVersion,         \* revision of the service in use
    svcPc,                  \* position in getTracksForDailyChallenge
    spotifyTrackCandidates, \* ids of the candidates gathered so far
    resolved,               \* ids handed to searchYouTubeVideo, in order
    tracksForChallenge      \* ids of the tracks accepted so far

tvars == <<serviceVersion, svcPc, spotifyTrackCandidates, resolved,
           tracksForChallenge>>

\* What the curator leaves alone.
\* services/music-source-service.js: one call of searchYouTubeVideo
VARIABLES
    videoRevision,     \* revision of searchYouTubeVideo in use
    vidPc,             \* "search", "awaiting", "items", "returned" or "threw"
    spotifyDurationMs, \* the track's duration handed to the call (0: none)
    strategyIndex,     \* position in searchStrategies / searchQueries
    remaining,         \* items of the current search response not yet looked at
    requests,          \* template types sent to the search endpoint so far
    lastCheck,         \* the item looked at last and what became of it
    videoId,           \* the item returned, NoVideo for none
    thrown             \* the error the call threw, "none" for none

yvars == <<videoRevision, vidPc, spotifyDurationMs, strategyIndex, remaining,
           requests, lastCheck, videoId, thrown>>

\* MusicBrainz requests: fetchTrackIdeasByGenreFromMusicBrainz of the service
\* or fetchAndCacheArtistInfoFromMusicBrainz of the genre enrichment script
VARIABLES
    mbCaller,          \* "service" or "script": which of the two loops runs
    mbPc,              \* position in the loop
    mbClock,           \* wall clock in milliseconds
    mbSent,            \* the requests sent so far: send time and outcome
    mbQueue,           \* seed genres (service) or song artists (script) left
    mbIdeas,           \* trackIdeas.length in the service
    artistInfoCache    \* artists the script has cached in this run

bvars == <<mbCaller, mbPc, mbClock, mbSent, mbQueue, mbIdeas, artistInfoCache>>

\* services/music-source-service.js: the Spotify token of one call of
\* getTracksForDailyChallenge
VARIABLES
    tkPc,               \* "start", "run", "done" or "threw"
    tkClock,            \* Date.now() in seconds since the call began
    spotifyAccessToken, \* module variable: the cached token (NULL: none)
    tokenExpiryTime,    \* module variable: when the cached token stops being used
    token,              \* the const `token` of the call (NULL before line 414)
    tkRequests          \* the Spotify requests sent: token, time, answer

kvars == <<tkPc, tkClock, spotifyAccessToken, tokenExpiryTime, token, tkRequests>>

\* scripts/enrich_songs_with_spotify.js, scripts/enrich_songs_with_youtube.js
\* and the SELECT of the catalog-based curator, on the columns of
\* curated_songs they read and write
VARIABLES
    catalog,            \* curated_songs: id -> the row's columns, as text
    ytRun,              \* per run of enrichSongsWithYouTube: position and locals
    tracksToChallenge   \* the rows the curator's SELECT returned last

nvars == <<catalog, ytRun, tracksToChallenge>>

\* routes/api-routes.js: GET /daily-challenge/songs and
\* POST /daily-challenge/guess for one signed-in user and guests
VARIABLES
    challengeIds,       \* ids of today's rows of daily_challenges
    scores,             \* the user's rows of table scores
    lastResponse        \* the request answered last and its response

avars == <<challengeIds, scores, lastResponse>>

\* services/music-source-service.js: the candidates one call of
\* getTracksForDailyChallenge (strategies revision) gathers, for any
\* desiredTrackCount
VARIABLES
    desiredTrackCount,            \* the argument of the call
    fetchPc,                      \* the strategy that comes next
    finalSpotifyTrackCandidates,  \* ids of the candidates gathered so far
    strategyCalls                 \* fallbacks called: which, and candidates held then

fvars == <<desiredTrackCount, fetchPc, finalSpotifyTrackCandidates,
           strategyCalls>>

\* The components added after the curator, matcher, tracks service and
\* video search.
evars == <<bvars, kvars, nvars, avars, fvars>>

ovars == <<mvars, tvars, yvars, evars>>
vars == <<cvars, mvars, tvars, yvars, evars>>

(* ------------------------------ helpers ------------------------------- *)

SeqsUpTo(S, n) == UNION {[1..k -> S] : k \in 0..n}

\* Injective sequences of length n over S: ORDER BY RANDOM() LIMIT n.
OrderedSelections(S, n) ==
    {s \in [1..n -> S] : \A i, j \in 1..n : i # j => s[i] # s[j]}

Min(a, b) == IF a < b THEN a ELSE b

Row(d, o, t) == [challenge_date |-> d, song_order |-> o, track_id_from_source |-> t]

RowsFor(rows, d) == {x \in rows : x.challenge_date = d}

\* What is durably stored: the open transaction's writes are not.
Committed == IF inTransaction THEN txSnapshot.daily_challenges ELSE daily_challenges
CommittedCurated == IF inTransaction THEN txSnapshot.curated_songs ELSE curated_songs

\* Mutation: only UNIQUE(challenge_date, song_order) is declared.
UniqueOkOrderOnly(rows, row) ==
    \A x \in rows :
        x.challenge_date = row.challenge_date => x.song_order # row.song_order

\* Mutation: daily_challenges declares no UNIQUE constraint.
NoUniqueConstraint(rows, row) == TRUE

\* UNIQUE(challenge_date, song_order), UNIQUE(challenge_date, track_id_from_source)
UniqueOk(rows, row) ==
    \A x \in rows :
        x.challenge_date = row.challenge_date =>
            /\ x.song_order # row.song_order
            /\ x.track_id_from_source # row.track_id_from_source

\* The WHERE clause of selectCuratedSql; `enriched` stands for the conjunction
\* of the id, metadata and is_active conditions.
Eligible(s, thirtyDaysAgo) ==
    /\ curated_songs[s].enriched
    /\ \/ curated_songs[s].last_used_for_challenge = NULL
       \/ curated_songs[s].last_used_for_challenge < thirtyDaysAgo

CoolDownDays == 30

FaultChoices == IF faults < MaxFaults THEN {FALSE, TRUE} ELSE {FALSE}

\* No song: the matcher is not in use.
NoSong == [title |-> <<>>, artist |-> <<>>]
\* No search result looked at yet.
NoVideo ==
    [title |-> "", channelTitle |-> "",
     details |-> [kind |-> "empty",
                  iso |-> [days |-> 0, hours |-> 0, minutes |-> 0, seconds |-> 0]]]
NoCheck == [item |-> NoVideo, verdict |-> "none"]
\* No request answered yet.
NoResponse ==
    [route |-> "none", authenticated |-> FALSE, dbError |-> FALSE,
     playedAll |-> FALSE, status |-> 0, challengeCompletedToday |-> FALSE]

IdleRun ==
    [pc |-> "idle", date |-> 0, tracks |-> <<>>, idx |-> 0, outcome |-> "pending",
     reason |-> "none", why |-> "none", log |-> {}, began |-> FALSE,
     insertFailed |-> FALSE, faulted |-> FALSE, existed |-> FALSE,
     second |-> FALSE, overlapped |-> FALSE, fetched |-> FALSE, k |-> 0,
     orders |-> {}, discovered |-> FALSE, txBegun |-> FALSE, ended |-> 0]

\* A promise settles once: later resolve()/reject() calls are ignored.
Settle(rec, o, why) ==
    IF rec.outcome = "pending"
    THEN [rec EXCEPT !.outcome = o, !.reason = why]
    ELSE rec

\* The run has nothing more to do: its locals are dropped, what it did is kept,
\* with the song_order values committed for its date at that moment.
Finish(rec, committedAfter) ==
    [rec EXCEPT !.pc = "done", !.tracks = <<>>, !.idx = 0, !.why = "none",
                !.began = FALSE,
                !.orders = {x.song_order : x \in RowsFor(committedAfter, rec.date)}]

Active(r) == run[r].pc \notin {"idle", "done"}
\* Past the existence check: selecting, fetching or writing.
Curating(r) == run[r].pc \notin {"idle", "check", "done"}

(* ------------------------------- Init --------------------------------- *)

CuratorInit ==
    /\ variant \in Variants
    /\ today = 1
    /\ daily_challenges = {}
    /\ curated_songs \in
         {[s \in CatalogIds |->
              [last_used_for_challenge |-> NULL, enriched |-> (s <= e)]] :
           e \in (IF variant = "catalog" THEN 0..DAILY_SONG_COUNT
                                         ELSE {DAILY_SONG_COUNT})}
    /\ inTransaction = FALSE
    /\ txSnapshot = [daily_challenges |-> {}, curated_songs |-> curated_songs]
    /\ run = [r \in Runs |-> IdleRun]
    /\ faults = 0
    /\ localSong = NoSong /\ spotifyResults = <<>>
    /\ matchPc = "idle" /\ returned = NULL
    /\ serviceVersion = "genre" /\ svcPc = "idle"
    /\ spotifyTrackCandidates = <<>> /\ resolved = <<>>
    /\ tracksForChallenge = <<>>
    /\ videoRevision = "strategies" /\ vidPc = "idle" /\ spotifyDurationMs = 0
    /\ strategyIndex = 1 /\ remaining = 0 /\ requests = <<>>
    /\ lastCheck = NoCheck /\ videoId = NoVideo /\ thrown = "none"
    /\ mbCaller = "service" /\ mbPc = "idle" /\ mbClock = 0 /\ mbSent = <<>>
    /\ mbQueue = <<>> /\ mbIdeas = 0 /\ artistInfoCache = {}
    /\ tkPc = "idle" /\ tkClock = 0 /\ spotifyAccessToken = NULL
    /\ tokenExpiryTime = 0 /\ token = NULL /\ tkRequests = <<>>
    /\ catalog = <<>> /\ ytRun = <<>>
    /\ tracksToChallenge = {}
    /\ challengeIds = {} /\ scores = {} /\ lastResponse = NoResponse
    /\ desiredTrackCount = DAILY_SONG_COUNT /\ fetchPc = "idle"
    /\ finalSpotifyTrackCandidates = <<>> /\ strategyCalls = {}

(* ------------------------------ triggers ------------------------------ *)

\* startDailyJob: the startup run fires once, the cron callback once a day.
Trigger(r) ==
    /\ run[r].pc \in {"idle", "done"}
    /\ r = "startup" => run[r].pc = "idle"
    /\ r = "cron" => run[r].date < today
    /\ run' = [q \in Runs |->
                 IF q = r
                 THEN [IdleRun EXCEPT !.pc = "check", !.date = today,
                                      !.existed = (RowsFor(Committed, today) # {}),
                                      !.second = (\E o \in Runs \ {r} : Active(o)),
                                      !.overlapped = (\E o \in Runs \ {r} : Active(o))]
                 ELSE IF Active(q) THEN [run[q] EXCEPT !.overlapped = TRUE]
                 ELSE run[q]]
    /\ UNCHANGED <<variant, today, daily_challenges, curated_songs,
                   inTransaction, txSnapshot, faults>>
    /\ UNCHANGED ovars

\* Midnight UTC passes. Runs last seconds and the cron fires at 01:00, so the
\* day changes between runs.
NextDay ==
    /\ today + 1 \in Days
    /\ \A r \in Runs : ~Active(r)
    /\ today' = today + 1
    /\ UNCHANGED <<variant, daily_challenges, curated_songs, inTransaction,
                   txSnapshot, run, faults>>
    /\ UNCHANGED ovars

(* ------------------------- curateDailySongs --------------------------- *)

NoSnapshot == [daily_challenges |-> {}, curated_songs |-> curated_songs]

\* db.get('SELECT COUNT(*) ... WHERE challenge_date = ?'): the existence check.
\* The promiseAll revision has the skip commented out.
CheckExisting(r) ==
    /\ run[r].pc = "check"
    /\ \E fail \in FaultChoices :
        LET rec == run[r] IN
        /\ faults' = faults + (IF fail THEN 1 ELSE 0)
        /\ run' = [run EXCEPT ![r] =
             IF fail
             THEN Finish([Settle(rec, "rejected", "dbError") EXCEPT !.faulted = TRUE], Committed)
             ELSE IF variant # "promiseAll" /\ RowsFor(daily_challenges, rec.date) # {}
             THEN Finish(Settle(rec, "resolved", "exists"), Committed)
             ELSE [rec EXCEPT !.pc = IF variant = "catalog" THEN "select" ELSE "fetch"]]
    /\ UNCHANGED <<variant, today, daily_challenges, curated_songs,
                   inTransaction, txSnapshot>>
    /\ UNCHANGED ovars

\* Mutation: the catalog revision goes on to the transaction with no track.
OnNoTracksWrites(rec) ==
    IF variant = "catalog"
    THEN [Settle(rec, "resolved", "noTracks") EXCEPT !.log = {"BEGIN", "COMMIT"}]
    ELSE Settle(rec, "rejected", "noTracks")

\* No track to store. catalog: "Not rejecting here, as it might be a temporary
\* state" - resolve(); promiseAll and playlist: reject(new Error('No tracks ..')).
OnNoTracks(rec) ==
    IF variant = "catalog"
    THEN Settle(rec, "resolved", "noTracks")
    ELSE Settle(rec, "rejected", "noTracks")

\* Mutation: a short selection goes on to the discovery strategies.
AfterSelectFallThrough(n) == IF n < DAILY_SONG_COUNT THEN "fetch" ELSE "begin"

\* catalog, with n > 0 tracks selected: a selection shorter than
\* DAILY_SONG_COUNT is warned about, and the run goes on to the transaction.
AfterSelect(n) == "begin"

\* catalog: db.all(selectCuratedSql, [thirtyDaysAgoStr, DAILY_SONG_COUNT]).
SelectCurated(r) ==
    /\ variant = "catalog"
    /\ run[r].pc = "select"
    /\ \E fail \in FaultChoices :
        LET rec  == run[r]
            elig == {s \in CatalogIds : Eligible(s, today - CoolDownDays)}
            n    == Min(DAILY_SONG_COUNT, Cardinality(elig))
        IN
        /\ faults' = faults + (IF fail THEN 1 ELSE 0)
        /\ \E sel \in OrderedSelections(elig, n) :
             run' = [run EXCEPT ![r] =
               IF fail
               THEN Finish([Settle(rec, "rejected", "dbError") EXCEPT !.faulted = TRUE], Committed)
               ELSE IF n = 0
               THEN Finish(OnNoTracks([rec EXCEPT !.fetched = TRUE]), Committed)
               ELSE [rec EXCEPT !.pc = AfterSelect(n), !.tracks = sel, !.k = n,
                                !.fetched = TRUE]]
    /\ UNCHANGED <<variant, today, daily_challenges, curated_songs,
                   inTransaction, txSnapshot>>
    /\ UNCHANGED ovars

\* promiseAll: the pre-transaction filter on youtube_video_id. Every track the
\* service returns carries a video id (it pushes only when one was found).
validTracksForChallenge(fetchedTracks) ==
    SelectSeq(fetchedTracks, LAMBDA t : t \in SourceIds)

\* promiseAll: await getTracksForDailyChallenge(DAILY_SONG_COUNT);
\* playlist: await getTracksFromPlaylist(..), shuffle, slice(0, DAILY_SONG_COUNT).
\* The result is a list of at most DAILY_SONG_COUNT tracks, or the call throws.
FetchTracks(r) ==
    /\ variant \in {"promiseAll", "playlist"}
    /\ run[r].pc = "fetch"
    /\ \E throws \in BOOLEAN, got \in SeqsUpTo(SourceIds, DAILY_SONG_COUNT) :
        LET rec == [run[r] EXCEPT !.discovered = TRUE] IN
        /\ throws => got = <<>>
        /\ run' = [run EXCEPT ![r] =
             IF throws
             THEN IF variant = "playlist"
                  THEN [Settle(rec, "rejected", "sourceError") EXCEPT !.pc = "rollback"]
                  ELSE Finish(Settle(rec, "rejected", "sourceError"), Committed)
             ELSE IF Len(got) = 0 \/ Len(validTracksForChallenge(got)) = 0
             THEN Finish(OnNoTracks([rec EXCEPT !.fetched = TRUE]), Committed)
             ELSE [rec EXCEPT !.pc = "begin", !.k = Len(got), !.fetched = TRUE,
                              !.tracks = IF variant = "promiseAll"
                                         THEN validTracksForChallenge(got) ELSE got]]
    /\ UNCHANGED <<variant, today, daily_challenges, curated_songs,
                   inTransaction, txSnapshot, faults>>
    /\ UNCHANGED ovars

\* db.run('BEGIN TRANSACTION;'). SQLite refuses a BEGIN inside an open
\* transaction of the same connection.
BeginTransaction(r) ==
    /\ run[r].pc = "begin"
    /\ \E fail \in FaultChoices :
        LET ok  == ~fail /\ ~inTransaction
            rec == [run[r] EXCEPT !.log = @ \cup {"BEGIN"}, !.faulted = @ \/ fail,
                                  !.began = ok, !.txBegun = ok]
        IN
        /\ faults' = faults + (IF fail THEN 1 ELSE 0)
        /\ inTransaction' = (inTransaction \/ ok)
        /\ txSnapshot' = IF ok
                         THEN [daily_challenges |-> daily_challenges,
                               curated_songs |-> curated_songs]
                         ELSE txSnapshot
        /\ run' = [run EXCEPT ![r] =
             IF ok THEN [rec EXCEPT !.pc = "insert", !.idx = 1]
             ELSE IF variant = "playlist"
             THEN [Settle(rec, "rejected", "beginError") EXCEPT !.pc = "insert", !.idx = 1]
             ELSE Finish(Settle(rec, "rejected", "beginError"), Committed)]
    /\ UNCHANGED <<variant, today, daily_challenges, curated_songs>>
    /\ UNCHANGED ovars

\* One INSERT INTO daily_challenges with song_order = index + 1.
InsertSong(r) ==
    /\ run[r].pc = "insert"
    /\ \E fail \in FaultChoices :
        LET old  == run[r]
            row  == Row(old.date, old.idx, old.tracks[old.idx])
            ok   == ~fail /\ UniqueOk(daily_challenges, row)
            last == old.idx = Len(old.tracks)
            rec  == [old EXCEPT !.log = @ \cup {"INSERT"}, !.faulted = @ \/ fail,
                                !.insertFailed = @ \/ ~ok]
        IN
        /\ faults' = faults + (IF fail THEN 1 ELSE 0)
        /\ daily_challenges' = IF ok THEN daily_challenges \cup {row}
                               ELSE daily_challenges
        /\ run' = [run EXCEPT ![r] =
             IF variant = "catalog"
             THEN IF ok THEN [rec EXCEPT !.pc = "update"]
                  ELSE [rec EXCEPT !.pc = "rollback", !.why = "insertError"]
             ELSE [rec EXCEPT !.idx = @ + 1,
                              !.pc = IF last THEN "finalize" ELSE "insert"]]
    /\ UNCHANGED <<variant, today, curated_songs, inTransaction, txSnapshot>>
    /\ UNCHANGED ovars

\* catalog: UPDATE curated_songs SET last_used_for_challenge = ? WHERE id = ?;
\* an error is logged and the loop goes on.
UpdateCurated(r) ==
    /\ variant = "catalog"
    /\ run[r].pc = "update"
    /\ \E fail \in FaultChoices :
        LET old  == run[r]
            s    == old.tracks[old.idx]
            last == old.idx = Len(old.tracks)
        IN
        /\ faults' = faults + (IF fail THEN 1 ELSE 0)
        /\ curated_songs' =
             IF fail THEN curated_songs
             ELSE [curated_songs EXCEPT ![s].last_used_for_challenge = old.date]
        /\ run' = [run EXCEPT ![r] =
             [old EXCEPT !.log = @ \cup {"UPDATE"}, !.faulted = @ \/ fail,
                         !.idx = @ + 1,
                         !.pc = IF last THEN "commit" ELSE "insert"]]
    /\ UNCHANGED <<variant, today, daily_challenges, inTransaction, txSnapshot>>
    /\ UNCHANGED ovars

\* promiseAll: Promise.all(insertPromises) then insertStmt.finalize(..);
\* playlist: insertStmt.finalize(..) queued after the inserts.
FinalizeStatement(r) ==
    /\ variant \in {"promiseAll", "playlist"}
    /\ run[r].pc = "finalize"
    /\ \E fail \in FaultChoices :
        LET old == run[r]
            rec == [old EXCEPT !.faulted = @ \/ fail]
        IN
        /\ faults' = faults + (IF fail THEN 1 ELSE 0)
        /\ run' = [run EXCEPT ![r] =
             IF variant = "promiseAll"
             THEN IF old.insertFailed
                  THEN [rec EXCEPT !.pc = "rollback", !.why = "insertError"]
                  ELSE IF fail
                  THEN [rec EXCEPT !.pc = "rollback", !.why = "finalizeError"]
                  ELSE [rec EXCEPT !.pc = "commit"]
             ELSE IF fail
                  THEN [Settle(rec, "rejected", "finalizeError") EXCEPT !.pc = "rollback"]
                  ELSE [rec EXCEPT !.pc = "commit"]]
    /\ UNCHANGED <<variant, today, daily_challenges, curated_songs,
                   inTransaction, txSnapshot>>
    /\ UNCHANGED ovars

\* db.run('COMMIT;'). A COMMIT that fails leaves the transaction open; a COMMIT
\* with no open transaction is an error.
CommitTransaction(r) ==
    /\ run[r].pc = "commit"
    /\ \E fail \in FaultChoices :
        LET ok  == ~fail /\ inTransaction
            rec == [run[r] EXCEPT !.log = @ \cup {"COMMIT"}, !.faulted = @ \/ fail,
                                  !.ended = @ + (IF ok THEN 1 ELSE 0)]
        IN
        /\ faults' = faults + (IF fail THEN 1 ELSE 0)
        /\ inTransaction' = (inTransaction /\ ~ok)
        /\ txSnapshot' = IF ok THEN NoSnapshot ELSE txSnapshot
        /\ run' = [run EXCEPT ![r] =
             IF ok THEN Finish(Settle(rec, "resolved", "committed"), daily_challenges)
             ELSE IF variant = "catalog"
             THEN Finish(Settle(rec, "rejected", "commitError"), Committed)
             ELSE IF variant = "promiseAll"
             THEN [rec EXCEPT !.pc = "rollback", !.why = "commitError"]
             ELSE [Settle(rec, "rejected", "commitError") EXCEPT !.pc = "rollback"]]
    /\ UNCHANGED <<variant, today, daily_challenges, curated_songs>>
    /\ UNCHANGED ovars

\* db.run('ROLLBACK;') and then reject(..) of the error that led here.
RollbackTransaction(r) ==
    /\ run[r].pc = "rollback"
    /\ LET rec == [run[r] EXCEPT !.log = @ \cup {"ROLLBACK"},
                                  !.ended = @ + (IF inTransaction THEN 1 ELSE 0)] IN
        /\ daily_challenges' = IF inTransaction THEN txSnapshot.daily_challenges
                               ELSE daily_challenges
        /\ curated_songs' = IF inTransaction THEN txSnapshot.curated_songs
                            ELSE curated_songs
        /\ inTransaction' = FALSE
        /\ txSnapshot' = [daily_challenges |-> {}, curated_songs |-> curated_songs']
        /\ run' = [run EXCEPT ![r] =
                     Finish(Settle(rec, "rejected", rec.why), Committed)]
    /\ UNCHANGED <<variant, today, faults>>
    /\ UNCHANGED ovars

CuratorNext ==
    \/ NextDay
    \/ \E r \in Runs :
        \/ Trigger(r)
        \/ CheckExisting(r)
        \/ SelectCurated(r)
        \/ FetchTracks(r)
        \/ BeginTransaction(r)
        \/ InsertSong(r)
        \/ UpdateCurated(r)
        \/ FinalizeStatement(r)
        \/ CommitTransaction(r)
        \/ RollbackTransaction(r)

(* ----------- scripts/enrich_songs_with_spotify.js: the matcher --------- *)

\* Longest title or artist, and most search results, in one call.
MaxLen == 2
MaxResults == 2

\* Characters of a title: two letters and a punctuation mark; of an artist:
\* a lower-case and an upper-case letter.
TitleChars == {"a", "b", "!"}
ArtistChars == {"a", "B"}

Titles == SeqsUpTo(TitleChars, MaxLen)
Artists == SeqsUpTo(ArtistChars, MaxLen)
Songs == [title : Titles, artist : Artists]

\* String.prototype.toLowerCase
toLowerCase(text) ==
    [i \in 1..Len(text) |-> IF text[i] = "B" THEN "b" ELSE text[i]]

\* .replace(/[^a-z0-9\s]/g, ''): only [a-z0-9] and white space stay.
removePunctuation(text) == SelectSeq(text, LAMBDA c : c \in {"a", "b", " "})

\* .replace(/\s+/g, ' '): a run of white space becomes one blank.
RECURSIVE collapseWhitespace(_)
collapseWhitespace(text) ==
    IF Len(text) < 2 THEN text
    ELSE IF text[1] = " " /\ text[2] = " " THEN collapseWhitespace(Tail(text))
    ELSE <<text[1]>> \o collapseWhitespace(Tail(text))

\* String.prototype.trim
RECURSIVE trim(_)
trim(text) ==
    IF text = <<>> THEN text
    ELSE IF text[1] = " " THEN trim(Tail(text))
    ELSE IF text[Len(text)] = " " THEN trim(SubSeq(text, 1, Len(text) - 1))
    ELSE text

normalizeText(text) ==
    IF text = <<>> THEN <<>>
    ELSE trim(collapseWhitespace(removePunctuation(toLowerCase(text))))

\* String.prototype.includes: needle is a substring of hay ('' of anything).
includes(hay, needle) ==
    \E i \in 0..(Len(hay) - Len(needle)) : SubSeq(hay, i + 1, i + Len(needle)) = needle

\* Mutation: the artist test lets every candidate through.
ArtistMatchesAny(song, spotifyTrack) == Len(spotifyTrack.artist) >= 0

\* "Artist matching (crucial)": the condition of the if; else `continue`.
ArtistMatches(song, spotifyTrack) ==
    LET normalizedLocalArtist   == normalizeText(song.artist)
        normalizedSpotifyArtist == normalizeText(spotifyTrack.artist)
    IN \/ includes(normalizedSpotifyArtist, normalizedLocalArtist)
       \/ includes(normalizedLocalArtist, normalizedSpotifyArtist)

ArtistScore(song, spotifyTrack) ==
    IF ~ArtistMatches(song, spotifyTrack) THEN 0
    ELSE 5 + (IF normalizeText(spotifyTrack.artist) = normalizeText(song.artist)
              THEN 5 ELSE 0)

\* Mutation: a title that only contains the other counts as an exact title.
TitleScoreGenerous(song, spotifyTrack) ==
    LET normalizedLocalTitle   == normalizeText(song.title)
        normalizedSpotifyTitle == normalizeText(spotifyTrack.title)
    IN IF \/ includes(normalizedSpotifyTitle, normalizedLocalTitle)
          \/ includes(normalizedLocalTitle, normalizedSpotifyTitle)
       THEN 10 ELSE 0

\* "Title matching"
TitleScore(song, spotifyTrack) ==
    LET normalizedLocalTitle   == normalizeText(song.title)
        normalizedSpotifyTitle == normalizeText(spotifyTrack.title)
    IN IF normalizedSpotifyTitle = normalizedLocalTitle THEN 10
       ELSE IF \/ includes(normalizedSpotifyTitle, normalizedLocalTitle)
               \/ includes(normalizedLocalTitle, normalizedSpotifyTitle)
       THEN 3 ELSE 0

\* "Bonus if original local title (with quotes) is exactly in spotify title"
RawTitleBonus(song, spotifyTrack) ==
    IF includes(spotifyTrack.title, song.title) THEN 2 ELSE 0

\* The candidates the loop passes over with `continue`.
Skipped(song, spotifyTrack) ==
    \/ spotifyTrack.title = <<>>
    \/ spotifyTrack.artist = <<>>
    \/ ~ArtistMatches(song, spotifyTrack)

currentScore(song, spotifyTrack) ==
    ArtistScore(song, spotifyTrack) + TitleScore(song, spotifyTrack)
        + RawTitleBonus(song, spotifyTrack)

\* The for loop from candidate i on, with bestMatch (an index) and highestScore.
RECURSIVE MatchLoop(_, _, _, _, _)
MatchLoop(song, results, i, bestMatch, highestScore) ==
    IF i > Len(results) THEN [bestMatch |-> bestMatch, highestScore |-> highestScore]
    ELSE IF Skipped(song, results[i])
    THEN MatchLoop(song, results, i + 1, bestMatch, highestScore)
    ELSE LET score == currentScore(song, results[i]) IN
         IF score > highestScore
         THEN MatchLoop(song, results, i + 1, i, score)
         ELSE MatchLoop(song, results, i + 1, bestMatch, highestScore)

findBestSpotifyMatch(song, results) ==
    LET end == MatchLoop(song, results, 1, NULL, -1) IN
    IF end.bestMatch # NULL /\ end.highestScore >= 8 THEN end.bestMatch ELSE NULL

MatchInit ==
    /\ localSong \in Songs
    /\ spotifyResults \in SeqsUpTo(Songs, MaxResults)
    /\ matchPc = "call"
    /\ returned = NULL
    /\ serviceVersion = "genre" /\ svcPc = "idle"
    /\ spotifyTrackCandidates = <<>> /\ resolved = <<>>
    /\ tracksForChallenge = <<>>
    /\ variant = "playlist" /\ today = 1
    /\ daily_challenges = {}
    /\ curated_songs = [s \in CatalogIds |->
                          [last_used_for_challenge |-> NULL, enriched |-> TRUE]]
    /\ inTransaction = FALSE
    /\ txSnapshot = [daily_challenges |-> {}, curated_songs |-> curated_songs]
    /\ run = [r \in Runs |-> IdleRun]
    /\ faults = 0
    /\ videoRevision = "strategies" /\ vidPc = "idle" /\ spotifyDurationMs = 0
    /\ strategyIndex = 1 /\ remaining = 0 /\ requests = <<>>
    /\ lastCheck = NoCheck /\ videoId = NoVideo /\ thrown = "none"
    /\ mbCaller = "service" /\ mbPc = "idle" /\ mbClock = 0 /\ mbSent = <<>>
    /\ mbQueue = <<>> /\ mbIdeas = 0 /\ artistInfoCache = {}
    /\ tkPc = "idle" /\ tkClock = 0 /\ spotifyAccessToken = NULL
    /\ tokenExpiryTime = 0 /\ token = NULL /\ tkRequests = <<>>
    /\ catalog = <<>> /\ ytRun = <<>>
    /\ tracksToChallenge = {}
    /\ challengeIds = {} /\ scores = {} /\ lastResponse = NoResponse
    /\ desiredTrackCount = DAILY_SONG_COUNT /\ fetchPc = "idle"
    /\ finalSpotifyTrackCandidates = <<>> /\ strategyCalls = {}

\* let potentialMatch = findBestSpotifyMatch(song, searchResults);
CallMatcher ==
    /\ matchPc = "call"
    /\ returned' = findBestSpotifyMatch(localSong, spotifyResults)
    /\ matchPc' = "returned"
    /\ UNCHANGED <<localSong, spotifyResults, cvars, tvars, yvars, evars>>

(* ----- services/music-source-service.js: getTracksForDailyChallenge ---- *)

\* The two revisions of the service: "genre" gathers MusicBrainz genre ideas
\* first (lines 413-564), "category" a Spotify category playlist (993-1125).
ServiceVersions == {"genre", "category"}
\* Spotify track ids, and the longest listing one source call returns.
TrackIds == {1, 2, 3}
MaxListing == 3
Listings == SeqsUpTo(TrackIds, MaxListing)

initialFetchMultiplier == IF serviceVersion = "genre" THEN 3 ELSE 5
\* spotifyRequestLimit in the genre revision
spotifyFetchLimit == DAILY_SONG_COUNT * initialFetchMultiplier

Ids(tracks) == {tracks[i] : i \in 1..Len(tracks)}
\* Array.prototype.slice(0, n)
Slice(tracks, n) == SubSeq(tracks, 1, Min(n, Len(tracks)))

\* forEach(track => { if (!existingIds.has(track.id)) { push; add } })
RECURSIVE PushNew(_, _)
PushNew(candidates, tracks) ==
    IF tracks = <<>> THEN candidates
    ELSE PushNew(IF Head(tracks) \in Ids(candidates) THEN candidates
                 ELSE Append(candidates, Head(tracks)),
                 Tail(tracks))

\* [...new Set(ids)]
Unique(ids) == PushNew(<<>>, ids)

\* The MusicBrainz loop: stop once `limit` candidates are gathered, skip an
\* idea whose Spotify track is a candidate already.
RECURSIVE PushIdeas(_, _, _)
PushIdeas(candidates, found, limit) ==
    IF found = <<>> \/ Len(candidates) >= limit THEN candidates
    ELSE PushIdeas(IF Head(found) \in Ids(candidates) THEN candidates
                   ELSE Append(candidates, Head(found)),
                   Tail(found), limit)

\* sort(() => 0.5 - Math.random()) and the Fisher-Yates loop: any order.
Shuffles(tracks) ==
    {[i \in 1..Len(tracks) |-> tracks[p[i]]] :
        p \in {q \in [1..Len(tracks) -> 1..Len(tracks)] :
                  \A i, j \in 1..Len(tracks) : i # j => q[i] # q[j]}}

\* Math.ceil(needed / initialFetchMultiplier) || desiredTrackCount
StrategyCount(needed) ==
    LET c == (needed + initialFetchMultiplier - 1) \div initialFetchMultiplier
    IN IF c = 0 THEN DAILY_SONG_COUNT ELSE c

TracksInit ==
    /\ serviceVersion \in ServiceVersions
    /\ svcPc = "start"
    /\ spotifyTrackCandidates = <<>>
    /\ resolved = <<>>
    /\ tracksForChallenge = <<>>
    /\ localSong = NoSong /\ spotifyResults = <<>>
    /\ matchPc = "idle" /\ returned = NULL
    /\ variant = "playlist" /\ today = 1
    /\ daily_challenges = {}
    /\ curated_songs = [s \in CatalogIds |->
                          [last_used_for_challenge |-> NULL, enriched |-> TRUE]]
    /\ inTransaction = FALSE
    /\ txSnapshot = [daily_challenges |-> {}, curated_songs |-> curated_songs]
    /\ run = [r \in Runs |-> IdleRun]
    /\ faults = 0
    /\ videoRevision = "strategies" /\ vidPc = "idle" /\ spotifyDurationMs = 0
    /\ strategyIndex = 1 /\ remaining = 0 /\ requests = <<>>
    /\ lastCheck = NoCheck /\ videoId = NoVideo /\ thrown = "none"
    /\ mbCaller = "service" /\ mbPc = "idle" /\ mbClock = 0 /\ mbSent = <<>>
    /\ mbQueue = <<>> /\ mbIdeas = 0 /\ artistInfoCache = {}
    /\ tkPc = "idle" /\ tkClock = 0 /\ spotifyAccessToken = NULL
    /\ tokenExpiryTime = 0 /\ token = NULL /\ tkRequests = <<>>
    /\ catalog = <<>> /\ ytRun = <<>>
    /\ tracksToChallenge = {}
    /\ challengeIds = {} /\ scores = {} /\ lastResponse = NoResponse
    /\ desiredTrackCount = DAILY_SONG_COUNT /\ fetchPc = "idle"
    /\ finalSpotifyTrackCandidates = <<>> /\ strategyCalls = {}

\* genre: fetchTrackIdeasByGenreFromMusicBrainz, then one Spotify search per
\* idea; `found` lists the ids of the search hits that came with full details.
\* A throw inside the try leaves the candidates gathered up to it.
GenreIdeas ==
    /\ serviceVersion = "genre"
    /\ svcPc = "start"
    /\ \E found \in Listings :
         spotifyTrackCandidates' = PushIdeas(<<>>, found, spotifyFetchLimit)
    /\ svcPc' = "topPlaylists"
    /\ UNCHANGED <<serviceVersion, resolved, tracksForChallenge, cvars, mvars, yvars, evars>>

\* genre: fetchTracksFromTopPlaylistsStrategy and the merge after it.
TopPlaylists ==
    /\ serviceVersion = "genre"
    /\ svcPc = "topPlaylists"
    /\ \E listing \in Listings :
         LET needed == spotifyFetchLimit - Len(spotifyTrackCandidates)
             limit  == StrategyCount(needed) * initialFetchMultiplier
             topPlaylistCandidates == PushNew(<<>>, Slice(listing, limit))
         IN spotifyTrackCandidates' =
              IF Len(spotifyTrackCandidates) < spotifyFetchLimit
              THEN PushNew(spotifyTrackCandidates, topPlaylistCandidates)
              ELSE spotifyTrackCandidates
    /\ svcPc' = "newReleases"
    /\ UNCHANGED <<serviceVersion, resolved, tracksForChallenge, cvars, mvars, yvars, evars>>

\* genre: fetchTracksFromNewReleasesStrategy and the merge after it;
\* category: the new-releases fallback, taken when the playlist gave fewer
\* candidates than the desired number of tracks.
NewReleases ==
    /\ svcPc = "newReleases"
    /\ \E albumTrackIds \in Listings :
         LET have   == Len(spotifyTrackCandidates)
             needed == spotifyFetchLimit - have
             limit  == StrategyCount(needed) * initialFetchMultiplier
         IN spotifyTrackCandidates' =
              IF serviceVersion = "genre"
              THEN IF have < spotifyFetchLimit
                   THEN PushNew(spotifyTrackCandidates,
                                Slice(Unique(albumTrackIds), limit))
                   ELSE spotifyTrackCandidates
              ELSE IF have < DAILY_SONG_COUNT
                   THEN PushNew(spotifyTrackCandidates,
                                Slice(Unique(albumTrackIds), needed))
                   ELSE spotifyTrackCandidates
    /\ svcPc' = "shuffle"
    /\ UNCHANGED <<serviceVersion, resolved, tracksForChallenge, cvars, mvars, yvars, evars>>

\* category: spotifyTrackCandidates = await fetchTracksFromSpecificPlaylist(
\* selectedPlaylist.id, spotifyFetchLimit); the listing is taken as it comes
\* (an error or no playlist gives the empty list).
CategoryPlaylist ==
    /\ serviceVersion = "category"
    /\ svcPc = "start"
    /\ \E listing \in Listings :
         spotifyTrackCandidates' = Slice(listing, spotifyFetchLimit)
    /\ svcPc' = "newReleases"
    /\ UNCHANGED <<serviceVersion, resolved, tracksForChallenge, cvars, mvars, yvars, evars>>

Shuffle ==
    /\ svcPc = "shuffle"
    /\ spotifyTrackCandidates' \in Shuffles(spotifyTrackCandidates)
    /\ svcPc' = "resolve"
    /\ UNCHANGED <<serviceVersion, resolved, tracksForChallenge, cvars, mvars, yvars, evars>>

\* const token = await getAccessToken(): the token request fails or no
\* token comes back, and the call rejects before any strategy ran.
NoAccessToken ==
    /\ svcPc = "start"
    /\ svcPc' = "threwAuth"
    /\ UNCHANGED <<serviceVersion, spotifyTrackCandidates, resolved,
                   tracksForChallenge, cvars, mvars, yvars, evars>>

\* One turn of the loop: await searchYouTubeVideo(..) for the next
\* candidate.  The await stands in no try block: when searchYouTubeVideo
\* throws (a 403 answer; in the genre revision's file any search error, see
\* catchSearchError), the throw leaves getTracksForDailyChallenge with it,
\* whatever tracksForChallenge holds by then.
ResolveVideo ==
    /\ svcPc = "resolve"
    /\ Len(resolved) < Len(spotifyTrackCandidates)
    /\ Len(tracksForChallenge) < DAILY_SONG_COUNT
    /\ LET spotifyTrack == spotifyTrackCandidates[Len(resolved) + 1] IN
        /\ resolved' = Append(resolved, spotifyTrack)
        /\ \E youtubeVideoId \in {"video", "null", "throws"} :
            /\ tracksForChallenge' = IF youtubeVideoId = "video"
                                     THEN Append(tracksForChallenge, spotifyTrack)
                                     ELSE tracksForChallenge
            /\ svcPc' = IF youtubeVideoId = "throws" THEN "threwVideo" ELSE svcPc
    /\ UNCHANGED <<serviceVersion, spotifyTrackCandidates, cvars, mvars, yvars, evars>>

\* After the loop: throw when nothing was secured, else
\* return tracksForChallenge.slice(0, desiredTrackCount).
ReturnTracks ==
    /\ svcPc = "resolve"
    /\ \/ Len(resolved) = Len(spotifyTrackCandidates)
       \/ Len(tracksForChallenge) >= DAILY_SONG_COUNT
    /\ svcPc' = IF tracksForChallenge = <<>> THEN "threw" ELSE "returned"
    /\ tracksForChallenge' = Slice(tracksForChallenge, DAILY_SONG_COUNT)
    /\ UNCHANGED <<serviceVersion, spotifyTrackCandidates, resolved, cvars, mvars, yvars, evars>>

TracksNext ==
    \/ NoAccessToken
    \/ GenreIdeas
    \/ TopPlaylists
    \/ CategoryPlaylist
    \/ NewReleases
    \/ Shuffle
    \/ ResolveVideo
    \/ ReturnTracks

(* ------- searchYouTubeVideo, services/music-source-service.js --------- *)

\* The file holds two revisions of searchYouTubeVideo:
\*   "strategies"  lines 88-239   (searchStrategies, six typed templates)
\*   "queries"     lines 822-919  (searchQueries, five query strings)
VideoRevisions == {"strategies", "queries"}

\* Items of one search response looked at (maxResults is 3, resp. 5).
MaxItems == 2

\* The track the video is searched for.
trackArtist == "Daft Punk"
trackTitle == "One"
\* spotifyDurationMs values handed to the call; 0 stands for a missing one.
TargetDurations == {0, 100000, 200000}

\* item.snippet.title of the videos the search may list.
VideoTitles ==
    {"One (Official Audio)", "One (Lyric Video)", "One Live (Lyric Video)",
     "One (Lyrics)", "One (Audio)", "One", "One (Official Video)",
     "One (Karaoke Audio)", "One Remix (Audio)", "One (Cover) Lyrics"}
\* item.snippet.channelTitle
ChannelTitles == {"Daft Punk", "Daft Punk - Topic", "Lyrics Hub"}
\* contentDetails.duration, an ISO 8601 duration (P1DT3M40S has days = 1).
IsoDurations ==
    {[days |-> 0, hours |-> 0, minutes |-> 2, seconds |-> 0],
     [days |-> 0, hours |-> 0, minutes |-> 2, seconds |-> 5],
     [days |-> 0, hours |-> 0, minutes |-> 3, seconds |-> 40],
     [days |-> 0, hours |-> 0, minutes |-> 3, seconds |-> 55],
     [days |-> 1, hours |-> 0, minutes |-> 3, seconds |-> 40]}
NoDuration == [days |-> 0, hours |-> 0, minutes |-> 0, seconds |-> 0]
\* What the videos endpoint answers for an item: its duration, an empty
\* item list, or an error.
VideoDetails ==
    [kind : {"duration"}, iso : IsoDurations]
        \cup {[kind |-> "empty", iso |-> NoDuration],
              [kind |-> "error", iso |-> NoDuration]}
VideoItems == [title : VideoTitles, channelTitle : ChannelTitles, details : VideoDetails]
\* How a search request may fail: no response, a 5xx answer, a 403 answer.
SearchErrors == {"network", "server", "forbidden"}

searchStrategies ==
    <<[queryText |-> trackArtist \o " - " \o trackTitle \o " Official Audio",
       type |-> "official-audio", strictChannel |-> TRUE],
      [queryText |-> trackArtist \o " - " \o trackTitle \o " Lyric Video",
       type |-> "lyric-video", strictChannel |-> TRUE],
      [queryText |-> trackArtist \o " - " \o trackTitle \o " (Lyrics)",
       type |-> "lyrics", strictChannel |-> FALSE],
      [queryText |-> trackArtist \o " - " \o trackTitle \o " Audio",
       type |-> "audio", strictChannel |-> FALSE],
      [queryText |-> trackArtist \o " - " \o trackTitle \o " Topic",
       type |-> "topic", strictChannel |-> TRUE],
      [queryText |-> trackArtist \o " - " \o trackTitle,
       type |-> "general", strictChannel |-> FALSE]>>

\* The older revision's plain query strings; `type` names the template the
\* string is built from and strictChannel is not used.
searchQueries ==
    <<[queryText |-> trackArtist \o " - " \o trackTitle \o " Official Audio",
       type |-> "official-audio", strictChannel |-> FALSE],
      [queryText |-> trackArtist \o " - " \o trackTitle \o " Lyric Video",
       type |-> "lyric-video", strictChannel |-> FALSE],
      [queryText |-> trackArtist \o " - " \o trackTitle \o " Audio",
       type |-> "audio", strictChannel |-> FALSE],
      [queryText |-> trackArtist \o " - " \o trackTitle \o " Topic",
       type |-> "topic", strictChannel |-> FALSE],
      [queryText |-> trackArtist \o " - " \o trackTitle,
       type |-> "general", strictChannel |-> FALSE]>>

UpperCase == "ABCDEFGHIJKLMNOPQRSTUVWXYZ"
LowerCase == "abcdefghijklmnopqrstuvwxyz"
lowerChar(c) ==
    IF \E i \in 1..Len(UpperCase) : SubSeq(UpperCase, i, i) = c
    THEN LET i == CHOOSE k \in 1..Len(UpperCase) : SubSeq(UpperCase, k, k) = c
         IN SubSeq(LowerCase, i, i)
    ELSE c
\* String.prototype.toLowerCase on a character string
RECURSIVE lower(_)
lower(text) ==
    IF Len(text) = 0 THEN text
    ELSE lowerChar(SubSeq(text, 1, 1)) \o lower(SubSeq(text, 2, Len(text)))

\* The texts a call lower-cases, each lower-cased once.
LowerCased ==
    [text \in VideoTitles \cup ChannelTitles \cup {trackArtist}
               \cup {searchQueries[i].queryText : i \in 1..Len(searchQueries)}
        |-> lower(text)]

\* String.prototype.endsWith
endsWith(text, suffix) ==
    /\ Len(text) >= Len(suffix)
    /\ SubSeq(text, Len(text) - Len(suffix) + 1, Len(text)) = suffix

\* text.split(' ')[0]
firstWord(text) ==
    LET blanks == {i \in 1..Len(text) : SubSeq(text, i, i) = " "}
    IN IF blanks = {} THEN text
       ELSE SubSeq(text, 1, (CHOOSE i \in blanks : \A j \in blanks : i <= j) - 1)

isLikelyOfficialChannel(channelTitle, artistName) ==
    IF Len(channelTitle) = 0 \/ Len(artistName) = 0 THEN FALSE
    ELSE LET lowerChannel == LowerCased[channelTitle]
             lowerArtist == LowerCased[artistName]
         IN \/ includes(lowerChannel, lowerArtist)
            \/ includes(lowerChannel, firstWord(lowerArtist))
            \/ includes(lowerChannel, "vevo")
            \/ endsWith(lowerChannel, " - topic")
            \/ includes(lowerChannel, "official")

\* The regex wants "PT" next to each other: a duration with a day part
\* ("P1DT..") does not match, and matches[1] then throws a TypeError.
parseISO8601Matches(isoDuration) == isoDuration.days = 0
parseISO8601Duration(isoDuration) ==
    (isoDuration.hours * 3600 + isoDuration.minutes * 60 + isoDuration.seconds) * 1000

Abs(n) == IF n < 0 THEN 0 - n ELSE n

\* Mutation: the fallback template is tried first.
TemplatesGeneralFirst(revision) ==
    <<searchStrategies[6]>> \o SubSeq(searchStrategies, 1, 5)

TemplatesOf(revision) == IF revision = "strategies" THEN searchStrategies ELSE searchQueries
Templates == TemplatesOf(videoRevision)

undesiredKeywords(revision) ==
    IF revision = "strategies"
    THEN {"live", "cover", "remix", "interview", "teaser", "reaction", "parody",
          "tutorial", "instrumental", "karaoke", "official video", "music video"}
    ELSE {"live", "cover", "remix", "interview", "teaser", "reaction", "parody",
          "tutorial", "official video", "music video", "official music video",
          "live performance"}

\* The skip test on the lower-cased title.  strategies: a title holding
\* "lyric video" is let through whatever keyword it holds.
hasUndesiredKeyword(revision, videoTitleLower) ==
    IF revision = "strategies"
    THEN \E keyword \in undesiredKeywords(revision) :
            includes(videoTitleLower, keyword) /\ ~includes(videoTitleLower, "lyric video")
    ELSE \E keyword \in undesiredKeywords(revision) : includes(videoTitleLower, keyword)

\* strategies: the switch on strategy.type
isMatch(strategy, videoTitleLower, channelTitle) ==
    CASE strategy.type = "official-audio" -> includes(videoTitleLower, "official audio")
      [] strategy.type = "lyric-video" -> includes(videoTitleLower, "lyric video")
      [] strategy.type = "lyrics" -> includes(videoTitleLower, "lyrics")
      [] strategy.type = "audio" ->
            includes(videoTitleLower, "audio") /\ ~includes(videoTitleLower, "official audio")
      [] strategy.type = "topic" ->
            /\ includes(LowerCased[channelTitle], " - topic")
            /\ includes(LowerCased[channelTitle], firstWord(LowerCased[trackArtist]))
      [] OTHER -> TRUE

isHighConfidence(strategy, videoTitleLower, channelTitle) ==
    CASE strategy.type \in {"official-audio", "lyric-video"} ->
            isMatch(strategy, videoTitleLower, channelTitle)
                /\ isLikelyOfficialChannel(channelTitle, trackArtist)
      [] strategy.type = "topic" -> isMatch(strategy, videoTitleLower, channelTitle)
      [] OTHER -> FALSE

\* queries: the if / else-if chain on the title, the channel and the query
isPreferredType(query, videoTitleLower, channelTitleLower) ==
    \/ includes(videoTitleLower, "official audio")
    \/ includes(videoTitleLower, "lyric video") /\ includes(LowerCased[query], "lyric video")
    \/ includes(videoTitleLower, "audio") /\ includes(LowerCased[query], "audio")
    \/ includes(channelTitleLower, "topic") /\ includes(LowerCased[query], "topic")
    \/ query = trackArtist \o " - " \o trackTitle

\* The duration is compared when the details came with an item, the
\* duration string parsed and spotifyDurationMs is set.
durationCompared(targetMs, item) ==
    /\ targetMs # 0
    /\ item.details.kind = "duration"
    /\ parseISO8601Matches(item.details.iso)

\* strategies: maxDiff = Math.min(30000, spotifyDurationMs * 0.20); both
\* sides are taken times five to stay in the integers.
\* queries: a fixed 30000.
durationMismatch(revision, targetMs, item) ==
    LET diff == Abs(parseISO8601Duration(item.details.iso) - targetMs)
    IN IF revision = "strategies"
       THEN 5 * diff > Min(5 * 30000, targetMs)
       ELSE diff > 30000

\* What one turn of the loop over the response items does with an item.
checkItem(revision, targetMs, strategy, item) ==
    LET videoTitleLower == LowerCased[item.title] IN
    IF hasUndesiredKeyword(revision, videoTitleLower) THEN "keyword"
    ELSE IF revision = "strategies"
    THEN IF ~isMatch(strategy, videoTitleLower, item.channelTitle) THEN "type"
         ELSE IF /\ strategy.strictChannel
                 /\ ~isHighConfidence(strategy, videoTitleLower, item.channelTitle)
                 /\ ~isLikelyOfficialChannel(item.channelTitle, trackArtist)
              THEN "channel"
         ELSE IF durationCompared(targetMs, item) /\ durationMismatch(revision, targetMs, item) THEN "duration"
         ELSE "match"
    ELSE IF durationCompared(targetMs, item) /\ durationMismatch(revision, targetMs, item) THEN "duration"
         ELSE IF isPreferredType(strategy.queryText, videoTitleLower,
                                 LowerCased[item.channelTitle])
              THEN "match"
         ELSE "notPreferred"

\* checkItem for every revision, duration, template and item, tabulated
\* once (@@ <<>> makes the innermost function an explicit table).
Verdicts ==
    [revision \in VideoRevisions |->
       [targetMs \in TargetDurations |->
          [i \in 1..Len(TemplatesOf(revision)) |->
             [item \in VideoItems |->
                checkItem(revision, targetMs, TemplatesOf(revision)[i], item)]
             @@ <<>>]]]

\* One call searchYouTubeVideo(title, artist, spotifyDurationMs) with the API
\* key set.
VideoInit ==
    /\ videoRevision \in VideoRevisions
    /\ spotifyDurationMs \in TargetDurations
    /\ vidPc = "search"
    /\ strategyIndex = 1 /\ remaining = 0 /\ requests = <<>>
    /\ lastCheck = NoCheck /\ videoId = NoVideo /\ thrown = "none"
    /\ serviceVersion = "genre" /\ svcPc = "idle"
    /\ spotifyTrackCandidates = <<>> /\ resolved = <<>>
    /\ tracksForChallenge = <<>>
    /\ localSong = NoSong /\ spotifyResults = <<>>
    /\ matchPc = "idle" /\ returned = NULL
    /\ variant = "playlist" /\ today = 1
    /\ daily_challenges = {}
    /\ curated_songs = [s \in CatalogIds |->
                          [last_used_for_challenge |-> NULL, enriched |-> TRUE]]
    /\ inTransaction = FALSE
    /\ txSnapshot = [daily_challenges |-> {}, curated_songs |-> curated_songs]
    /\ run = [r \in Runs |-> IdleRun]
    /\ faults = 0
    /\ mbCaller = "service" /\ mbPc = "idle" /\ mbClock = 0 /\ mbSent = <<>>
    /\ mbQueue = <<>> /\ mbIdeas = 0 /\ artistInfoCache = {}
    /\ tkPc = "idle" /\ tkClock = 0 /\ spotifyAccessToken = NULL
    /\ tokenExpiryTime = 0 /\ token = NULL /\ tkRequests = <<>>
    /\ catalog = <<>> /\ ytRun = <<>>
    /\ tracksToChallenge = {}
    /\ challengeIds = {} /\ scores = {} /\ lastResponse = NoResponse
    /\ desiredTrackCount = DAILY_SONG_COUNT /\ fetchPc = "idle"
    /\ finalSpotifyTrackCandidates = <<>> /\ strategyCalls = {}

\* await axios.get(youtubeApiSearchUrl, ..) for the current template: the
\* request goes out, with no timeout option, and the call waits for the
\* answer.  lastCheck starts afresh with each request.
SendSearch ==
    /\ vidPc = "search"
    /\ strategyIndex <= Len(Templates)
    /\ requests' = Append(requests, Templates[strategyIndex].type)
    /\ lastCheck' = NoCheck
    /\ vidPc' = "awaiting"
    /\ UNCHANGED <<videoRevision, spotifyDurationMs, strategyIndex, remaining,
                   videoId, thrown, cvars, mvars, tvars, evars>>

\* The search endpoint answers with `count` items.
SearchAnswers ==
    /\ vidPc = "awaiting"
    /\ \E count \in 0..MaxItems :
        /\ remaining' = count
        /\ IF count = 0
           THEN strategyIndex' = strategyIndex + 1 /\ vidPc' = "search"
           ELSE strategyIndex' = strategyIndex /\ vidPc' = "items"
    /\ UNCHANGED <<videoRevision, spotifyDurationMs, requests, lastCheck,
                   videoId, thrown, cvars, mvars, tvars, evars>>

\* What the catch block of the search request does.  strategies: the log
\* line reads `query`, a name that revision never declares, so the
\* template string throws a ReferenceError before the 403 test is reached.
\* queries: a 403 is rethrown, any other error moves on to the next query.
catchSearchError(error) ==
    IF videoRevision = "strategies" THEN "ReferenceError"
    ELSE IF error = "forbidden" THEN "Forbidden"
    ELSE "none"

\* The search request fails: the catch block runs.
SearchFails ==
    /\ vidPc = "awaiting"
    /\ \E error \in SearchErrors :
        /\ lastCheck' = [item |-> NoVideo, verdict |-> error]
        /\ thrown' = catchSearchError(error)
        /\ IF thrown' = "none"
           THEN strategyIndex' = strategyIndex + 1 /\ vidPc' = "search"
           ELSE strategyIndex' = strategyIndex /\ vidPc' = "threw"
    /\ UNCHANGED <<videoRevision, spotifyDurationMs, remaining, requests,
                   videoId, cvars, mvars, tvars, evars>>

\* One turn of the loop over searchResponse.data.items, the request for the
\* item's contentDetails included.
ConsiderItem ==
    /\ vidPc = "items"
    /\ remaining > 0
    /\ \E item \in VideoItems :
        LET verdict == Verdicts[videoRevision][spotifyDurationMs][strategyIndex][item] IN
        /\ lastCheck' = [item |-> item, verdict |-> verdict]
        /\ IF verdict = "match"
           THEN /\ videoId' = item
                /\ vidPc' = "returned"
                /\ UNCHANGED <<remaining, strategyIndex>>
           ELSE /\ videoId' = videoId
                /\ remaining' = remaining - 1
                /\ strategyIndex' = IF remaining = 1 THEN strategyIndex + 1
                                    ELSE strategyIndex
                /\ vidPc' = IF remaining = 1 THEN "search" ELSE "items"
    /\ UNCHANGED <<videoRevision, spotifyDurationMs, requests, thrown,
                   cvars, mvars, tvars, evars>>

\* After the last template: return null.
ReturnNull ==
    /\ vidPc = "search"
    /\ strategyIndex > Len(Templates)
    /\ vidPc' = "returned"
    /\ UNCHANGED <<videoRevision, spotifyDurationMs, strategyIndex, remaining,
                   requests, lastCheck, videoId, thrown, cvars, mvars, tvars, evars>>

VideoNext ==
    \/ SendSearch
    \/ SearchAnswers
    \/ SearchFails
    \/ ConsiderItem
    \/ ReturnNull

(* ------------------------- MusicBrainz requests ----------------------- *)
\* services/music-source-service.js, fetchTrackIdeasByGenreFromMusicBrainz,
\* and scripts/enrich_genres_musicbrainz.js,
\* fetchAndCacheArtistInfoFromMusicBrainz called once per song by
\* enrichSongsWithMusicBrainzGenres.  Both send their requests one at a time
\* and sleep with delay(1100) inside the try block, after the response.

MbCallers == {"service", "script"}
\* Seed genres handed to the service loop in one call.
MaxGenres == 3
\* Songs the script finds without genres in one run.
MaxSongs == 3
\* await delay(1100) / DELAY_BETWEEN_API_CALLS_MS
DELAY_BETWEEN_API_CALLS_MS == 1100
\* Milliseconds between sending a request and its response or error.
Latencies == {100, 300}
\* Milliseconds a setTimeout callback may run after its due time.
TimerLateness == {0, 100}
\* song.artist of the songs the script walks through.
SongArtists == {"Daft Punk", "Queen"}
\* fetchTrackIdeasByGenreFromMusicBrainz(genresToFetch, 25, spotifyRequestLimit)
tracksPerGenre == 25
\* New distinct ideas one response adds to trackIdeas.
FoundCounts == {0, 2, tracksPerGenre}

MbInit ==
    /\ mbCaller \in MbCallers
    /\ mbPc = "loop"
    /\ mbClock = 0
    /\ mbSent = <<>>
    /\ mbQueue \in (IF mbCaller = "service"
                    THEN {[i \in 1..n |-> "genre"] : n \in 0..MaxGenres}
                    ELSE SeqsUpTo(SongArtists, MaxSongs))
    /\ mbIdeas = 0
    /\ artistInfoCache = {}
    /\ videoRevision = "strategies" /\ vidPc = "idle" /\ spotifyDurationMs = 0
    /\ strategyIndex = 1 /\ remaining = 0 /\ requests = <<>>
    /\ lastCheck = NoCheck /\ videoId = NoVideo /\ thrown = "none"
    /\ serviceVersion = "genre" /\ svcPc = "idle"
    /\ spotifyTrackCandidates = <<>> /\ resolved = <<>>
    /\ tracksForChallenge = <<>>
    /\ localSong = NoSong /\ spotifyResults = <<>>
    /\ matchPc = "idle" /\ returned = NULL
    /\ variant = "playlist" /\ today = 1
    /\ daily_challenges = {}
    /\ curated_songs = [s \in CatalogIds |->
                          [last_used_for_challenge |-> NULL, enriched |-> TRUE]]
    /\ inTransaction = FALSE
    /\ txSnapshot = [daily_challenges |-> {}, curated_songs |-> curated_songs]
    /\ run = [r \in Runs |-> IdleRun]
    /\ faults = 0
    /\ tkPc = "idle" /\ tkClock = 0 /\ spotifyAccessToken = NULL
    /\ tokenExpiryTime = 0 /\ token = NULL /\ tkRequests = <<>>
    /\ catalog = <<>> /\ ytRun = <<>>
    /\ tracksToChallenge = {}
    /\ challengeIds = {} /\ scores = {} /\ lastResponse = NoResponse
    /\ desiredTrackCount = DAILY_SONG_COUNT /\ fetchPc = "idle"
    /\ finalSpotifyTrackCandidates = <<>> /\ strategyCalls = {}

\* axios.get(url, ..) leaves the process: the request is on the wire.
MbSend(next) ==
    /\ mbSent' = Append(mbSent, [at |-> mbClock, outcome |-> "pending"])
    /\ mbPc' = next
    /\ UNCHANGED <<mbCaller, mbClock, mbQueue, mbIdeas, artistInfoCache>>

\* The response arrived after `latency`; the code then awaits delay(1100),
\* which resolves no earlier than 1100 ms later.
MbAnswered(outcome, latency, late) ==
    /\ mbSent' = [mbSent EXCEPT ![Len(mbSent)].outcome = outcome]
    /\ mbClock' = mbClock + latency + DELAY_BETWEEN_API_CALLS_MS + late

\* axios.get rejected after `latency`: control jumps to the catch block,
\* past the delay that follows the request inside the try block.
MbFailed(latency) ==
    /\ mbSent' = [mbSent EXCEPT ![Len(mbSent)].outcome = "error"]
    /\ mbClock' = mbClock + latency

\* service, line 699-706: the next genre's request.
MbSendRecordings ==
    /\ mbCaller = "service" /\ mbPc = "loop"
    /\ mbQueue # <<>> /\ mbIdeas < spotifyFetchLimit
    /\ MbSend("awaitingRecordings")
    /\ UNCHANGED <<cvars, mvars, tvars, yvars, kvars, nvars, avars, fvars>>

\* service, lines 708-734: recordings or none, then the delay.
MbRecordingsAnswer ==
    /\ mbPc = "awaitingRecordings"
    /\ \E latency \in Latencies, late \in TimerLateness, found \in FoundCounts :
          /\ MbAnswered(IF found > 0 THEN "ok" ELSE "empty", latency, late)
          /\ mbIdeas' = mbIdeas + found
    /\ mbQueue' = Tail(mbQueue)
    /\ mbPc' = "loop"
    /\ UNCHANGED <<mbCaller, artistInfoCache, cvars, mvars, tvars, yvars, kvars, nvars, avars, fvars>>

\* service, lines 735-739: "Continue to next genre if one fails".
MbRecordingsError ==
    /\ mbPc = "awaitingRecordings"
    /\ \E latency \in Latencies : MbFailed(latency)
    /\ mbQueue' = Tail(mbQueue)
    /\ mbPc' = "loop"
    /\ UNCHANGED <<mbCaller, mbIdeas, artistInfoCache, cvars, mvars, tvars, yvars, kvars, nvars, avars, fvars>>

\* script, lines 68-71: a cached artist costs no request.
MbCacheHit ==
    /\ mbCaller = "script" /\ mbPc = "loop"
    /\ mbQueue # <<>> /\ Head(mbQueue) \in artistInfoCache
    /\ mbQueue' = Tail(mbQueue)
    /\ UNCHANGED <<mbCaller, mbPc, mbClock, mbSent, mbIdeas, artistInfoCache,
                   cvars, mvars, tvars, yvars, kvars, nvars, avars, fvars>>

\* script, lines 78-79: the artist search request.
MbSendArtistSearch ==
    /\ mbCaller = "script" /\ mbPc = "loop"
    /\ mbQueue # <<>> /\ Head(mbQueue) \notin artistInfoCache
    /\ MbSend("awaitingArtist")
    /\ UNCHANGED <<cvars, mvars, tvars, yvars, kvars, nvars, avars, fvars>>

\* script, lines 80-101 and 107-110: the delay, then either an MBID (go on to
\* the details request) or none (cache the artist and return).  The database
\* work between two songs is taken to cost no time.
MbArtistSearchAnswer ==
    /\ mbPc = "awaitingArtist"
    /\ \E latency \in Latencies, late \in TimerLateness, artistMBID \in BOOLEAN :
          /\ MbAnswered(IF artistMBID THEN "ok" ELSE "empty", latency, late)
          /\ IF artistMBID
             THEN /\ mbPc' = "details"
                  /\ UNCHANGED <<mbQueue, artistInfoCache>>
             ELSE /\ mbPc' = "loop"
                  /\ artistInfoCache' = artistInfoCache \cup {Head(mbQueue)}
                  /\ mbQueue' = Tail(mbQueue)
    /\ UNCHANGED <<mbCaller, mbIdeas, cvars, mvars, tvars, yvars, kvars, nvars, avars, fvars>>

\* script, lines 102-110: 'artist_search_error', cached, returned.
MbArtistSearchError ==
    /\ mbPc = "awaitingArtist"
    /\ \E latency \in Latencies : MbFailed(latency)
    /\ artistInfoCache' = artistInfoCache \cup {Head(mbQueue)}
    /\ mbQueue' = Tail(mbQueue)
    /\ mbPc' = "loop"
    /\ UNCHANGED <<mbCaller, mbIdeas, cvars, mvars, tvars, yvars, kvars, nvars, avars, fvars>>

\* script, lines 114-115: the artist details request.
MbSendDetails ==
    /\ mbPc = "details"
    /\ MbSend("awaitingDetails")
    /\ UNCHANGED <<cvars, mvars, tvars, yvars, kvars, nvars, avars, fvars>>

\* script, lines 116-129 and 136-137.
MbDetailsAnswer ==
    /\ mbPc = "awaitingDetails"
    /\ \E latency \in Latencies, late \in TimerLateness, genres \in BOOLEAN :
          MbAnswered(IF genres THEN "ok" ELSE "empty", latency, late)
    /\ artistInfoCache' = artistInfoCache \cup {Head(mbQueue)}
    /\ mbQueue' = Tail(mbQueue)
    /\ mbPc' = "loop"
    /\ UNCHANGED <<mbCaller, mbIdeas, cvars, mvars, tvars, yvars, kvars, nvars, avars, fvars>>

\* script, lines 131-137: 'genre_fetch_error'.
MbDetailsError ==
    /\ mbPc = "awaitingDetails"
    /\ \E latency \in Latencies : MbFailed(latency)
    /\ artistInfoCache' = artistInfoCache \cup {Head(mbQueue)}
    /\ mbQueue' = Tail(mbQueue)
    /\ mbPc' = "loop"
    /\ UNCHANGED <<mbCaller, mbIdeas, cvars, mvars, tvars, yvars, kvars, nvars, avars, fvars>>

\* The loop ends: no genre or song left, or (service, line 699) enough ideas.
MbReturn ==
    /\ mbPc = "loop"
    /\ mbQueue = <<>> \/ (mbCaller = "service" /\ mbIdeas >= spotifyFetchLimit)
    /\ mbPc' = "done"
    /\ UNCHANGED <<mbCaller, mbClock, mbSent, mbQueue, mbIdeas, artistInfoCache,
                   cvars, mvars, tvars, yvars, kvars, nvars, avars, fvars>>

MbNext ==
    \/ MbSendRecordings
    \/ MbRecordingsAnswer
    \/ MbRecordingsError
    \/ MbCacheHit
    \/ MbSendArtistSearch
    \/ MbArtistSearchAnswer
    \/ MbArtistSearchError
    \/ MbSendDetails
    \/ MbDetailsAnswer
    \/ MbDetailsError
    \/ MbReturn

(* --------------------------- Spotify token ---------------------------- *)
\* services/music-source-service.js: getAccessToken and the use
\* getTracksForDailyChallenge makes of its result.  Times are in seconds.

\* Spotify requests one call sends.
MaxRequests == 3
\* response.data.expires_in of the client-credentials grant
expires_in == 3600
\* tokenExpiryTime = Date.now() + (response.data.expires_in - 300) * 1000
ExpiryMargin == 300
\* What an earlier call in the same process (an autocomplete search, an
\* earlier run) left in the cache when this call begins: nothing, or token 1
\* with its expiry time already past, two seconds ahead, or far ahead.
CachedAtStart ==
    {[spotifyAccessToken |-> NULL, tokenExpiryTime |-> 0]} \cup
    [spotifyAccessToken : {1}, tokenExpiryTime : {0 - 10, 2, 3000}]
\* Seconds that pass before a Spotify request is sent: the MusicBrainz
\* delays, earlier requests, video searches.
Elapsed == {1, 4, 3300}
\* HTTP status of a Spotify answer.
SpotifyStatuses == {200, 401}

TokenInit ==
    /\ tkPc = "start"
    /\ tkClock = 0
    /\ \E cached \in CachedAtStart :
          /\ spotifyAccessToken = cached.spotifyAccessToken
          /\ tokenExpiryTime = cached.tokenExpiryTime
    /\ token = NULL
    /\ tkRequests = <<>>
    /\ mbCaller = "service" /\ mbPc = "idle" /\ mbClock = 0 /\ mbSent = <<>>
    /\ mbQueue = <<>> /\ mbIdeas = 0 /\ artistInfoCache = {}
    /\ videoRevision = "strategies" /\ vidPc = "idle" /\ spotifyDurationMs = 0
    /\ strategyIndex = 1 /\ remaining = 0 /\ requests = <<>>
    /\ lastCheck = NoCheck /\ videoId = NoVideo /\ thrown = "none"
    /\ serviceVersion = "genre" /\ svcPc = "idle"
    /\ spotifyTrackCandidates = <<>> /\ resolved = <<>>
    /\ tracksForChallenge = <<>>
    /\ localSong = NoSong /\ spotifyResults = <<>>
    /\ matchPc = "idle" /\ returned = NULL
    /\ variant = "playlist" /\ today = 1
    /\ daily_challenges = {}
    /\ curated_songs = [s \in CatalogIds |->
                          [last_used_for_challenge |-> NULL, enriched |-> TRUE]]
    /\ inTransaction = FALSE
    /\ txSnapshot = [daily_challenges |-> {}, curated_songs |-> curated_songs]
    /\ run = [r \in Runs |-> IdleRun]
    /\ faults = 0
    /\ catalog = <<>> /\ ytRun = <<>>
    /\ tracksToChallenge = {}
    /\ challengeIds = {} /\ scores = {} /\ lastResponse = NoResponse
    /\ desiredTrackCount = DAILY_SONG_COUNT /\ fetchPc = "idle"
    /\ finalSpotifyTrackCandidates = <<>> /\ strategyCalls = {}

\* if (spotifyAccessToken && Date.now() < tokenExpiryTime) return it
TokenIsCached == spotifyAccessToken # NULL /\ tkClock < tokenExpiryTime

\* const token = await getAccessToken(), line 414, answered from the cache.
GetCachedToken ==
    /\ tkPc = "start"
    /\ TokenIsCached
    /\ token' = spotifyAccessToken
    /\ tkPc' = "run"
    /\ UNCHANGED <<tkClock, spotifyAccessToken, tokenExpiryTime, tkRequests,
                   cvars, mvars, tvars, yvars, bvars, nvars, avars, fvars>>

\* getAccessToken, lines 47-57: the token endpoint answers with a new token.
GetNewToken ==
    /\ tkPc = "start"
    /\ ~TokenIsCached
    /\ spotifyAccessToken' = spotifyAccessToken + 1
    /\ tokenExpiryTime' = tkClock + (expires_in - ExpiryMargin)
    /\ token' = spotifyAccessToken'
    /\ tkPc' = "run"
    /\ UNCHANGED <<tkClock, tkRequests, cvars, mvars, tvars, yvars, bvars, nvars, avars, fvars>>

\* getAccessToken, lines 58-62: the token endpoint fails; the call throws.
GetTokenFails ==
    /\ tkPc = "start"
    /\ ~TokenIsCached
    /\ tkPc' = "threw"
    /\ UNCHANGED <<tkClock, spotifyAccessToken, tokenExpiryTime, token,
                   tkRequests, cvars, mvars, tvars, yvars, bvars, nvars, avars, fvars>>

\* Any Spotify request of the call (searchTracksOnSpotify,
\* fetchFullTrackDetails, the playlist and new-release strategies): each is
\* handed the `token` of line 414 and sends `Bearer ${token}`.  Whatever the
\* answer, the callee returns [] or throws, and the call goes on (or ends)
\* with the same `token`: no path calls getAccessToken again.
SpotifyRequest ==
    /\ tkPc = "run"
    /\ Len(tkRequests) < MaxRequests
    /\ \E dt \in Elapsed, status \in SpotifyStatuses :
          /\ tkClock' = tkClock + dt
          /\ tkRequests' = Append(tkRequests,
                 [token |-> token, at |-> tkClock', status |-> status,
                  expiry |-> tokenExpiryTime])
    /\ UNCHANGED <<tkPc, spotifyAccessToken, tokenExpiryTime, token,
                   cvars, mvars, tvars, yvars, bvars, nvars, avars, fvars>>

\* getTracksForDailyChallenge returns.
TokenCallReturns ==
    /\ tkPc = "run"
    /\ tkPc' = "done"
    /\ UNCHANGED <<tkClock, spotifyAccessToken, tokenExpiryTime, token,
                   tkRequests, cvars, mvars, tvars, yvars, bvars, nvars, avars, fvars>>

TokenNext ==
    \/ GetCachedToken
    \/ GetNewToken
    \/ GetTokenFails
    \/ SpotifyRequest
    \/ TokenCallReturns

(* ------------------------ catalogue enrichment ------------------------ *)
\* curated_songs as the enrichment scripts and the catalog-based curator see
\* it.  Column values are written as text; SqlNull is SQL NULL.

\* Rows the importer has inserted.
MaxCatalog == 2
SongIds == 1..MaxCatalog
\* Runs of scripts/enrich_songs_with_youtube.js that may overlap.
YtRuns == {"first", "second"}
SqlNull == "NULL"
\* Decimal text of a row id, for `${statusMarker}_${curatedSongId}`.
IdText == <<"1", "2", "3", "4">>
\* Track ids Spotify may answer with.
SpotifyTrackIds == {"4uLU6hMCjMI75M1A2tKUQC", "7ouMYWpwJ422jRcDASZB7P"}
\* Video ids searchYouTubeVideo may return.
YouTubeVideoIds == {"dQw4w9WgXcQ"}
\* track.album.images[0].url, or null when the album has no image
AlbumArtUrls == {"https://i.scdn.co/image/ab67616d", SqlNull}
\* The status markers of markSongAsProblematic's callers.
SpotifyStatusMarkers ==
    {"SPOTIFY_DETAILS_FAIL", "ERROR_FETCHING_DETAILS", "SPOTIFY_NO_CONFIDENT_MATCH"}
\* The status markers of markSongYouTubeStatus's callers.
YouTubeStatusMarkers == {"Youtube_NOT_FOUND", "ERROR_DURING_YOUTUBE_ENRICH"}

\* const uniqueStatusMarker = `${statusMarker}_${curatedSongId}`
uniqueStatusMarker(statusMarker, curatedSongId) ==
    statusMarker \o "_" \o IdText[curatedSongId]

\* INSERT INTO curated_songs (title, artist, year): the other columns take
\* their defaults (NULL, is_active 1).
ImportedRow ==
    [title |-> "One", artist |-> "Daft Punk", spotify_track_id |-> SqlNull,
     album_art_url |-> SqlNull, duration_ms |-> SqlNull,
     youtube_video_id |-> SqlNull, is_active |-> "1"]

\* The LIKE operator on operands of one case: % matches any run of
\* characters, _ any one character, everything else itself.
RECURSIVE LikeFrom(_, _)
LikeFrom(text, pattern) ==
    IF Len(pattern) = 0 THEN Len(text) = 0
    ELSE LET p    == SubSeq(pattern, 1, 1)
             rest == SubSeq(pattern, 2, Len(pattern))
         IN IF p = "%"
            THEN \E k \in 0..Len(text) : LikeFrom(SubSeq(text, k + 1, Len(text)), rest)
            ELSE /\ Len(text) > 0
                 /\ p = "_" \/ p = SubSeq(text, 1, 1)
                 /\ LikeFrom(SubSeq(text, 2, Len(text)), rest)

\* Mutation: LIKE compares letters case-sensitively.
LikeCaseSensitive(text, pattern) == LikeFrom(text, pattern)

\* SQLite's LIKE: case-insensitive for ASCII letters (no PRAGMA
\* case_sensitive_like is issued anywhere).
Like(text, pattern) == LikeFrom(lower(text), lower(pattern))

\* Every text an id column can hold, and the patterns the queries use.
IdColumnTexts ==
    SpotifyTrackIds \cup YouTubeVideoIds \cup YouTubeStatusMarkers
      \cup {uniqueStatusMarker(m, s) : m \in SpotifyStatusMarkers, s \in SongIds}
LikePatterns == {"SPOTIFY_%", "YOUTUBE_%", "ERROR_%"}
\* x LIKE pattern for those texts, each evaluated once.
LikeTable ==
    [text \in IdColumnTexts |-> [pattern \in LikePatterns |-> Like(text, pattern)] @@ <<>>]
      @@ <<>>

\* col IS NOT NULL AND col NOT LIKE pattern
NotNullNotLike(value, pattern) == value # SqlNull /\ ~LikeTable[value][pattern]

\* (is_active = 1 OR is_active IS NULL)
IsActive(row) == row.is_active = "1" \/ row.is_active = SqlNull

\* The WHERE clause of enrichSongsWithSpotify's SELECT.
NeedsSpotify(row) == row.spotify_track_id = SqlNull /\ IsActive(row)

\* The WHERE clause of enrichSongsWithYouTube's SELECT.
NeedsYouTube(row) ==
    /\ NotNullNotLike(row.spotify_track_id, "SPOTIFY_%")
    /\ NotNullNotLike(row.spotify_track_id, "ERROR_%")
    /\ row.youtube_video_id = SqlNull
    /\ IsActive(row)

\* The WHERE clause of selectCuratedSql, but for the cool-down condition on
\* last_used_for_challenge, which Eligible models.
selectCuratedWhere(row) ==
    /\ NotNullNotLike(row.spotify_track_id, "SPOTIFY_%")
    /\ NotNullNotLike(row.spotify_track_id, "ERROR_%")
    /\ NotNullNotLike(row.youtube_video_id, "YOUTUBE_%")
    /\ NotNullNotLike(row.youtube_video_id, "ERROR_%")
    /\ row.title # SqlNull
    /\ row.artist # SqlNull
    /\ row.album_art_url # SqlNull
    /\ row.duration_ms # SqlNull
    /\ IsActive(row)

IdleYtRun ==
    [pc |-> "idle", songsToEnrich |-> <<>>, i |-> 0, marker |-> SqlNull,
     forbiddenAt |-> 0, calls |-> {}, refused |-> FALSE]

\* Ascending sequence of the ids in a set: the order the SELECT lists rows.
RECURSIVE Ascending(_)
Ascending(ids) ==
    IF ids = {} THEN <<>>
    ELSE LET least == CHOOSE x \in ids : \A y \in ids : x <= y
         IN <<least>> \o Ascending(ids \ {least})

EnrichInit ==
    /\ catalog = [s \in SongIds |-> ImportedRow]
    /\ ytRun = [r \in YtRuns |-> IdleYtRun]
    /\ tracksToChallenge = {}
    /\ videoRevision \in VideoRevisions
    /\ vidPc = "idle" /\ spotifyDurationMs = 0
    /\ strategyIndex = 1 /\ remaining = 0 /\ requests = <<>>
    /\ lastCheck = NoCheck /\ videoId = NoVideo /\ thrown = "none"
    /\ tkPc = "idle" /\ tkClock = 0 /\ spotifyAccessToken = NULL
    /\ tokenExpiryTime = 0 /\ token = NULL /\ tkRequests = <<>>
    /\ mbCaller = "service" /\ mbPc = "idle" /\ mbClock = 0 /\ mbSent = <<>>
    /\ mbQueue = <<>> /\ mbIdeas = 0 /\ artistInfoCache = {}
    /\ serviceVersion = "genre" /\ svcPc = "idle"
    /\ spotifyTrackCandidates = <<>> /\ resolved = <<>>
    /\ tracksForChallenge = <<>>
    /\ localSong = NoSong /\ spotifyResults = <<>>
    /\ matchPc = "idle" /\ returned = NULL
    /\ variant = "catalog" /\ today = 1
    /\ daily_challenges = {}
    /\ curated_songs = [s \in CatalogIds |->
                          [last_used_for_challenge |-> NULL, enriched |-> TRUE]]
    /\ inTransaction = FALSE
    /\ txSnapshot = [daily_challenges |-> {}, curated_songs |-> curated_songs]
    /\ run = [r \in Runs |-> IdleRun]
    /\ faults = 0
    /\ challengeIds = {} /\ scores = {} /\ lastResponse = NoResponse
    /\ desiredTrackCount = DAILY_SONG_COUNT /\ fetchPc = "idle"
    /\ finalSpotifyTrackCandidates = <<>> /\ strategyCalls = {}

\* What the catalogue actions leave alone.
NotCatalog == <<cvars, mvars, tvars, yvars, bvars, kvars, avars, fvars>>

\* markSongAsProblematic(db, id, statusMarker):
\* UPDATE .. SET spotify_track_id = ?, is_active = 0
\*   WHERE id = ? AND spotify_track_id IS NULL
markSongAsProblematic(rows, curatedSongId, statusMarker) ==
    IF rows[curatedSongId].spotify_track_id = SqlNull
    THEN [rows EXCEPT ![curatedSongId].spotify_track_id =
                          uniqueStatusMarker(statusMarker, curatedSongId),
                      ![curatedSongId].is_active = "0"]
    ELSE rows

\* enrichSongsWithSpotify, one turn of its loop for a song its SELECT listed:
\* the searches find a confident match or none; the details request answers
\* with the track, with nothing, or fails; the UPDATE of lines 176-193 fails
\* on UNIQUE(spotify_track_id) when another row holds the id, which the
\* catch block of line 199 reports as 'ERROR_FETCHING_DETAILS'.
EnrichSongWithSpotify(s) ==
    /\ NeedsSpotify(catalog[s])
    /\ \E outcome \in {"details"} \cup SpotifyStatusMarkers,
          id \in SpotifyTrackIds, art \in AlbumArtUrls :
          catalog' =
             IF outcome = "details"
             THEN IF \E o \in SongIds : catalog[o].spotify_track_id = id
                  THEN markSongAsProblematic(catalog, s, "ERROR_FETCHING_DETAILS")
                  ELSE [catalog EXCEPT ![s].spotify_track_id = id,
                                       ![s].album_art_url = art,
                                       ![s].duration_ms = "200000",
                                       ![s].is_active = "1"]
             ELSE markSongAsProblematic(catalog, s, outcome)
    /\ UNCHANGED <<ytRun, tracksToChallenge, NotCatalog>>

\* enrichSongsWithYouTube, lines 163-184: the batch is read once.
YtSelectSongs(r) ==
    /\ ytRun[r].pc = "idle"
    /\ LET songsToEnrich == Ascending({s \in SongIds : NeedsYouTube(catalog[s])})
       IN ytRun' = [ytRun EXCEPT ![r].songsToEnrich = songsToEnrich,
                                 ![r].i = 1,
                                 ![r].pc = IF songsToEnrich = <<>> THEN "done"
                                           ELSE "search"]
    /\ UNCHANGED <<catalog, tracksToChallenge, NotCatalog>>

\* error.message of what searchYouTubeVideo throws.
errorMessage(error) ==
    IF error = "Forbidden"
    THEN "YouTube API request failed (403). Possible quota issue."
    ELSE "query is not defined"

\* Lines 215-219: the thrown error is neither an AllApiKeysExhaustedError nor
\* an axios error (searchYouTubeVideo throws a new Error or a
\* ReferenceError), so only the message test can hold.
isQuotaError(error) == includes(lower(errorMessage(error)), "quota")
\* The same test for the two errors searchYouTubeVideo throws, made once.
QuotaErrors == {error \in {"Forbidden", "ReferenceError"} : isQuotaError(error)}

\* Lines 195-232: await searchYouTubeVideo(..) for song i.  The search ends
\* with a video id or null, or one of its requests fails; catchSearchError
\* says what the search function then throws.  A quota error breaks out of
\* the loop; any other error is recorded with the error marker.
YtSearch(r) ==
    /\ ytRun[r].pc = "search"
    /\ \E error \in SearchErrors \cup {"none"},
          youtubeVideoId \in YouTubeVideoIds \cup {SqlNull} :
          LET threw == IF error = "none" THEN "none" ELSE catchSearchError(error)
              rec   == [ytRun[r] EXCEPT
                          !.forbiddenAt = IF error = "forbidden" /\ @ = 0
                                          THEN ytRun[r].i ELSE @]
          IN ytRun' = [ytRun EXCEPT ![r] =
                 IF threw = "none"
                 THEN [rec EXCEPT !.pc = "mark",
                                  !.marker = IF youtubeVideoId # SqlNull
                                             THEN youtubeVideoId
                                             ELSE "Youtube_NOT_FOUND"]
                 ELSE IF threw \in QuotaErrors
                 THEN [rec EXCEPT !.pc = "done"]
                 ELSE [rec EXCEPT !.pc = "mark",
                                  !.marker = "ERROR_DURING_YOUTUBE_ENRICH"]]
    /\ UNCHANGED <<catalog, tracksToChallenge, NotCatalog>>

\* Mutation: the UPDATE has no `AND youtube_video_id IS NULL`.
OverwriteYouTubeStatus(rows, curatedSongId, youtube_id_or_status_marker) ==
    [rows EXCEPT ![curatedSongId].youtube_video_id = youtube_id_or_status_marker]

\* markSongYouTubeStatus:
\* UPDATE curated_songs SET youtube_video_id = ?
\*   WHERE id = ? AND youtube_video_id IS NULL
markSongYouTubeStatus(rows, curatedSongId, youtube_id_or_status_marker) ==
    IF rows[curatedSongId].youtube_video_id = SqlNull
    THEN [rows EXCEPT ![curatedSongId].youtube_video_id = youtube_id_or_status_marker]
    ELSE rows

\* Lines 203, 208, 228: await markSongYouTubeStatus(db, song.id, ..), then
\* the next turn of the loop.
YtMark(r) ==
    /\ ytRun[r].pc = "mark"
    /\ LET song == ytRun[r].songsToEnrich[ytRun[r].i] IN
       /\ catalog' = markSongYouTubeStatus(catalog, song, ytRun[r].marker)
       /\ ytRun' = [ytRun EXCEPT
             ![r].calls = @ \cup {song},
             ![r].refused = @ \/ catalog[song].youtube_video_id # SqlNull,
             ![r].i = @ + 1,
             ![r].pc = IF ytRun[r].i < Len(ytRun[r].songsToEnrich)
                       THEN "search" ELSE "done"]
    /\ UNCHANGED <<tracksToChallenge, NotCatalog>>

\* curateDailySongs, catalog revision: db.all(selectCuratedSql, ..) with
\* LIMIT DAILY_SONG_COUNT.
SelectForChallenge ==
    /\ LET eligible == {s \in SongIds : selectCuratedWhere(catalog[s])} IN
       \E chosen \in SUBSET eligible :
          /\ Cardinality(chosen) = Min(DAILY_SONG_COUNT, Cardinality(eligible))
          /\ tracksToChallenge' = {[id |-> s, row |-> catalog[s]] : s \in chosen}
    /\ UNCHANGED <<catalog, ytRun, NotCatalog>>

EnrichNext ==
    \/ \E s \in SongIds : EnrichSongWithSpotify(s)
    \/ \E r \in YtRuns : YtSelectSongs(r)
    \/ \E r \in YtRuns : YtSearch(r)
    \/ \E r \in YtRuns : YtMark(r)
    \/ SelectForChallenge

(* ----------------------------- API routes ----------------------------- *)
\* routes/api-routes.js: the two daily-challenge routes, for today's rows of
\* daily_challenges and the scores of one user.

\* const maxLevels = DAILY_SONG_COUNT || 5
maxLevels == IF DAILY_SONG_COUNT = 0 THEN 5 ELSE DAILY_SONG_COUNT

PlayInit ==
    /\ challengeIds \in {1..k : k \in 0..DAILY_SONG_COUNT}
    /\ scores = {}
    /\ lastResponse = NoResponse
    /\ catalog = <<>> /\ ytRun = <<>>
    /\ tracksToChallenge = {}
    /\ videoRevision = "strategies"
    /\ vidPc = "idle" /\ spotifyDurationMs = 0
    /\ strategyIndex = 1 /\ remaining = 0 /\ requests = <<>>
    /\ lastCheck = NoCheck /\ videoId = NoVideo /\ thrown = "none"
    /\ tkPc = "idle" /\ tkClock = 0 /\ spotifyAccessToken = NULL
    /\ tokenExpiryTime = 0 /\ token = NULL /\ tkRequests = <<>>
    /\ mbCaller = "service" /\ mbPc = "idle" /\ mbClock = 0 /\ mbSent = <<>>
    /\ mbQueue = <<>> /\ mbIdeas = 0 /\ artistInfoCache = {}
    /\ serviceVersion = "genre" /\ svcPc = "idle"
    /\ spotifyTrackCandidates = <<>> /\ resolved = <<>>
    /\ tracksForChallenge = <<>>
    /\ localSong = NoSong /\ spotifyResults = <<>>
    /\ matchPc = "idle" /\ returned = NULL
    /\ variant = "catalog" /\ today = 1
    /\ daily_challenges = {}
    /\ curated_songs = [s \in CatalogIds |->
                          [last_used_for_challenge |-> NULL, enriched |-> TRUE]]
    /\ inTransaction = FALSE
    /\ txSnapshot = [daily_challenges |-> {}, curated_songs |-> curated_songs]
    /\ run = [r \in Runs |-> IdleRun]
    /\ faults = 0
    /\ desiredTrackCount = DAILY_SONG_COUNT /\ fetchPc = "idle"
    /\ finalSpotifyTrackCandidates = <<>> /\ strategyCalls = {}

\* SELECT COUNT(DISTINCT s.daily_challenge_id) .. JOIN daily_challenges ..
\* WHERE s.user_id = ? AND dc.challenge_date = today
songs_played_count ==
    Cardinality({x.daily_challenge_id : x \in scores} \cap challengeIds)

\* playedResult.songs_played_count >= DAILY_SONG_COUNT
HasCompleted(count) == count >= DAILY_SONG_COUNT

\* The user has a stored score for each of today's songs.
PlayedAll == \A id \in challengeIds : \E x \in scores : x.daily_challenge_id = id

\* What the play actions leave alone.
NotPlay == <<cvars, mvars, tvars, yvars, bvars, kvars, nvars, fvars>>

\* GET /api/daily-challenge/songs, lines 34-95.
GetSongs ==
    /\ \E authenticated \in BOOLEAN, dbError \in BOOLEAN :
          LET challengeCompletedToday ==
                  authenticated /\ ~dbError /\ HasCompleted(songs_played_count)
          IN lastResponse' =
                [route |-> "songs", authenticated |-> authenticated,
                 dbError |-> dbError, playedAll |-> PlayedAll,
                 status |-> IF challengeIds = {} THEN 404 ELSE 200,
                 challengeCompletedToday |-> challengeCompletedToday]
    /\ UNCHANGED <<challengeIds, scores, NotPlay>>

\* POST /api/daily-challenge/guess, lines 98-209.  `correct` is the outcome
\* of comparing the trimmed, lower-cased guess with the title.
PostGuess ==
    /\ \E authenticated \in BOOLEAN, dbError \in BOOLEAN, missing \in BOOLEAN,
          daily_challenge_song_id \in 1..DAILY_SONG_COUNT,
          correct \in BOOLEAN, currentLevel \in 1..maxLevels :
          LET refused  == authenticated /\ ~dbError /\ HasCompleted(songs_played_count)
              status   == IF missing THEN 400
                          ELSE IF authenticated /\ dbError THEN 500
                          ELSE IF refused THEN 403
                          ELSE IF daily_challenge_song_id \notin challengeIds THEN 404
                          ELSE 200
              pointsAwarded == (maxLevels - currentLevel + 1) * 10
              stored   == IF status # 200 \/ ~authenticated THEN {}
                          ELSE IF correct
                          THEN {[daily_challenge_id |-> daily_challenge_song_id,
                                 score |-> pointsAwarded,
                                 guessed_at_level |-> currentLevel]}
                          ELSE IF currentLevel >= maxLevels
                          THEN {[daily_challenge_id |-> daily_challenge_song_id,
                                 score |-> 0, guessed_at_level |-> currentLevel]}
                          ELSE {}
          IN /\ lastResponse' =
                   [route |-> "guess", authenticated |-> authenticated,
                    dbError |-> dbError, playedAll |-> PlayedAll,
                    status |-> status, challengeCompletedToday |-> FALSE]
             /\ scores' = scores \cup stored
    /\ UNCHANGED <<challengeIds, NotPlay>>

PlayNext ==
    \/ GetSongs
    \/ PostGuess

(* ------ getTracksForDailyChallenge: the number of candidates gathered ------ *)

\* Values of desiredTrackCount run through 1..MaxDesired.
MaxDesired == 2
\* The sources hand out track ids from FirstIds onwards.
MaxFirstId == 4

\* const spotifyRequestLimit = desiredTrackCount * initialFetchMultiplier
spotifyRequestLimit == desiredTrackCount * initialFetchMultiplier

\* What a source returns: n tracks with consecutive ids.
Consecutive(first, n) == [i \in 1..n |-> first + i - 1]
SourceLists(maxLen) ==
    {Consecutive(first, n) : first \in 1..MaxFirstId, n \in 0..maxLen}

\* The first argument of both fallback calls:
\* Math.ceil(needed / initialFetchMultiplier) || desiredTrackCount
strategyDesiredTrackCount(needed) ==
    LET c == (needed + initialFetchMultiplier - 1) \div initialFetchMultiplier
    IN IF c = 0 THEN desiredTrackCount ELSE c

\* const spotifyFetchLimit = desiredTrackCount * initialFetchMultiplier inside
\* fetchTracksFromTopPlaylistsStrategy and fetchTracksFromNewReleasesStrategy
strategyFetchLimit(needed) ==
    strategyDesiredTrackCount(needed) * initialFetchMultiplier

OverFetchInit ==
    /\ challengeIds = {}
    /\ scores = {}
    /\ lastResponse = NoResponse
    /\ catalog = <<>> /\ ytRun = <<>>
    /\ tracksToChallenge = {}
    /\ videoRevision = "strategies"
    /\ vidPc = "idle" /\ spotifyDurationMs = 0
    /\ strategyIndex = 1 /\ remaining = 0 /\ requests = <<>>
    /\ lastCheck = NoCheck /\ videoId = NoVideo /\ thrown = "none"
    /\ tkPc = "idle" /\ tkClock = 0 /\ spotifyAccessToken = NULL
    /\ tokenExpiryTime = 0 /\ token = NULL /\ tkRequests = <<>>
    /\ mbCaller = "service" /\ mbPc = "idle" /\ mbClock = 0 /\ mbSent = <<>>
    /\ mbQueue = <<>> /\ mbIdeas = 0 /\ artistInfoCache = {}
    /\ serviceVersion = "genre" /\ svcPc = "idle"
    /\ spotifyTrackCandidates = <<>> /\ resolved = <<>>
    /\ tracksForChallenge = <<>>
    /\ localSong = NoSong /\ spotifyResults = <<>>
    /\ matchPc = "idle" /\ returned = NULL
    /\ variant = "catalog" /\ today = 1
    /\ daily_challenges = {}
    /\ curated_songs = [s \in CatalogIds |->
                          [last_used_for_challenge |-> NULL, enriched |-> TRUE]]
    /\ inTransaction = FALSE
    /\ txSnapshot = [daily_challenges |-> {}, curated_songs |-> curated_songs]
    /\ run = [r \in Runs |-> IdleRun]
    /\ faults = 0
    /\ desiredTrackCount \in 1..MaxDesired
    /\ fetchPc = "genres"
    /\ finalSpotifyTrackCandidates = <<>>
    /\ strategyCalls = {}

NotOverFetch == <<cvars, mvars, tvars, yvars, bvars, kvars, nvars, avars>>

\* The MusicBrainz strategy: every idea found on Spotify with a duration and
\* album art is pushed unless it is a candidate already, and the loop breaks
\* once spotifyRequestLimit candidates are held.  A failure of the strategy
\* is caught and leaves what was gathered (here: nothing found).
FetchGenreIdeas ==
    /\ fetchPc = "genres"
    /\ \E found \in SourceLists(spotifyRequestLimit + 1) :
         finalSpotifyTrackCandidates' =
             PushIdeas(<<>>, found, spotifyRequestLimit)
    /\ fetchPc' = "topPlaylists"
    /\ UNCHANGED <<desiredTrackCount, strategyCalls, NotOverFetch>>

\* if (finalSpotifyTrackCandidates.length < spotifyRequestLimit): the
\* strategy is called for ceil(needed / 3) tracks, gathers up to three times
\* that many, and every track of its result that is no candidate yet is
\* pushed.
MergeStrategy(strategy, listing) ==
    LET have   == Len(finalSpotifyTrackCandidates)
        needed == spotifyRequestLimit - have
        result == PushNew(<<>>, Slice(listing, strategyFetchLimit(needed)))
    IN IF have < spotifyRequestLimit
       THEN /\ finalSpotifyTrackCandidates' =
                   PushNew(finalSpotifyTrackCandidates, result)
            /\ strategyCalls' = strategyCalls \cup
                   {[strategy |-> strategy, have |-> have]}
       ELSE UNCHANGED <<finalSpotifyTrackCandidates, strategyCalls>>

\* Fallback strategy 2: fetchTracksFromTopPlaylistsStrategy and the merge.
FetchTopPlaylists ==
    /\ fetchPc = "topPlaylists"
    /\ \E listing \in SourceLists(spotifyRequestLimit + 1) :
         MergeStrategy("topPlaylists", listing)
    /\ fetchPc' = "newReleases"
    /\ UNCHANGED <<desiredTrackCount, NotOverFetch>>

\* Fallback strategy 3: fetchTracksFromNewReleasesStrategy and the merge.
FetchNewReleases ==
    /\ fetchPc = "newReleases"
    /\ \E albumTrackIds \in SourceLists(spotifyRequestLimit + 1) :
         MergeStrategy("newReleases", Unique(albumTrackIds))
    /\ fetchPc' = "shuffle"
    /\ UNCHANGED <<desiredTrackCount, NotOverFetch>>

OverFetchNext ==
    \/ FetchGenreIdeas
    \/ FetchTopPlaylists
    \/ FetchNewReleases

(* --------------------------- specifications --------------------------- *)

\* The scheduler and curateDailySongs on the shared connection.
Spec == CuratorInit /\ [][CuratorNext]_vars

\* One call of findBestSpotifyMatch on any song and any result list.
SpecMatch == MatchInit /\ [][CallMatcher]_vars

\* One call of getTracksForDailyChallenge against any source answers.
SpecTracks == TracksInit /\ [][TracksNext]_vars

\* One call of searchYouTubeVideo against any answers of the YouTube API.
SpecVideo == VideoInit /\ [][VideoNext]_vars

\* The requests either loop sends to MusicBrainz, on a millisecond clock.
SpecMusicBrainz == MbInit /\ [][MbNext]_vars

\* The token one call of getTracksForDailyChallenge sends to Spotify.
SpecToken == TokenInit /\ [][TokenNext]_vars

\* The enrichment scripts and the catalog selection on curated_songs.
SpecEnrich == EnrichInit /\ [][EnrichNext]_vars

\* The daily-challenge routes against any challenge size and any requests.
SpecPlay == PlayInit /\ [][PlayNext]_vars

\* The candidates getTracksForDailyChallenge gathers for any desired count.
SpecOverFetch == OverFetchInit /\ [][OverFetchNext]_vars

\* The same call under the scheduling Node gives it: a continuation that is
\* ready to run does run, so the steps the program takes by itself (sending
\* the next search request, returning null after the last template) are
\* weakly fair.  The answers of the YouTube API (SearchAnswers, SearchFails,
\* and the contentDetails answer inside ConsiderItem) are the environment's:
\* nothing makes them happen.  No axios call sets a timeout, so the program
\* has no step of its own that ends a wait.
SpecVideoLive ==
    VideoInit /\ [][VideoNext]_vars /\ WF_vars(SendSearch) /\ WF_vars(ReturnNull)

(* ------------------------- claims: the curator ------------------------ *)

Settled(r) == run[r].pc = "done"

\* C1 (as claimed): when two triggers overlap, at most one run is past the
\* existence check at a time, and a run triggered while another one is active
\* issues no BEGIN, INSERT, UPDATE, COMMIT or ROLLBACK.
C1_SchedulerExclusivity ==
    /\ ~(Curating("startup") /\ Curating("cron"))
    /\ \A r \in Runs : run[r].second => run[r].log = {}

\* C2 (as claimed): a settled run one of whose inserts failed leaves no row
\* committed for its challenge date (a date that had no row when it started,
\* with no other run beside it).
C2_TransactionAtomicity ==
    \A r \in Runs :
        (Settled(r) /\ run[r].insertFailed /\ ~run[r].existed /\ ~run[r].overlapped)
            => run[r].orders = {}

\* C3 (as claimed): a run started when rows for today are already committed
\* resolves and issues no write statement at all (no database error injected).
C3_Idempotence ==
    \A r \in Runs :
        (Settled(r) /\ run[r].existed /\ ~run[r].faulted)
            => /\ run[r].outcome = "resolved"
               /\ run[r].log = {}

\* C4 (as claimed): a run that obtained k tracks, 0 < k < DAILY_SONG_COUNT, met
\* no database error and had no other run beside it resolves, and when it has
\* settled exactly k rows are committed for its date, with song_order 1..k.
C4_PartialSuccess ==
    \A r \in Runs :
        (Settled(r) /\ run[r].k > 0 /\ run[r].k < DAILY_SONG_COUNT
                    /\ ~run[r].faulted /\ ~run[r].overlapped)
            => /\ run[r].outcome = "resolved"
               /\ run[r].orders = 1..run[r].k

C7_PersistedUniqueness ==
    \A x, y \in Committed :
        (x # y /\ x.challenge_date = y.challenge_date)
            => /\ x.song_order # y.song_order
               /\ x.track_id_from_source # y.track_id_from_source

\* Two rows are committed for a date and an insert of a settled run was
\* refused by a UNIQUE constraint.
C7_Witness ==
    \E r \in Runs :
        /\ Settled(r) /\ run[r].insertFailed /\ ~run[r].faulted
        /\ Cardinality(RowsFor(Committed, run[r].date)) >= 2

(* --------------- claims: getTracksForDailyChallenge ------------------- *)

NoDuplicate(ids) == \A i, j \in 1..Len(ids) : i # j => ids[i] # ids[j]

\* C6 (as claimed): no two candidates handed to video resolution share a
\* Spotify track id, and no two tracks of the accepted list do, whatever the
\* sources list.
C6_DedupAccepted ==
    /\ NoDuplicate(resolved)
    /\ NoDuplicate(tracksForChallenge)

(* ------------------------ claims: the matcher ------------------------- *)

Related(x, y) == includes(x, y) \/ includes(y, x)

\* A search result that carries a title and an artist.
WellFormed(c) == c.title # <<>> /\ c.artist # <<>>

ArtistCompatible(c) ==
    Related(normalizeText(c.artist), normalizeText(localSong.artist))

ExactCandidate(c) ==
    /\ WellFormed(c)
    /\ normalizeText(c.title) = normalizeText(localSong.title)
    /\ normalizeText(c.artist) = normalizeText(localSong.artist)

\* C8: the match is never a candidate whose normalized artist neither contains
\* nor is contained in the local song's; of one exact title-and-artist candidate
\* and one artist-mismatched candidate the exact one is returned, whichever
\* comes first.
C8_ArtistDisqualification ==
    matchPc = "returned" =>
        /\ returned # NULL => ArtistCompatible(spotifyResults[returned])
        /\ \A e, m \in 1..Len(spotifyResults) :
             (/\ Len(spotifyResults) = 2
              /\ e # m
              /\ ExactCandidate(spotifyResults[e])
              /\ ~ArtistCompatible(spotifyResults[m])) => returned = e

\* The artist-mismatched candidate has the local title and comes first, the
\* exact candidate is second and is the one returned.
C8_Witness ==
    /\ matchPc = "returned"
    /\ Len(spotifyResults) = 2
    /\ ~ArtistCompatible(spotifyResults[1])
    /\ spotifyResults[1].title = localSong.title
    /\ localSong.title # <<>>
    /\ ExactCandidate(spotifyResults[2])
    /\ returned = 2

Corroborated(c) ==
    \/ Related(normalizeText(c.title), normalizeText(localSong.title))
    \/ includes(c.title, localSong.title)

\* C9 (as claimed): the match is never a candidate whose title has no
\* corroboration with the local title, whatever the relation of the artists.
C9_TitleCorroboration ==
    (matchPc = "returned" /\ returned # NULL)
        => Corroborated(spotifyResults[returned])

\* The score the reference gives a candidate.
ReferenceScore(c) ==
    5 + (IF normalizeText(c.artist) = normalizeText(localSong.artist) THEN 5 ELSE 0)
      + (IF normalizeText(c.title) = normalizeText(localSong.title) THEN 10
         ELSE IF Related(normalizeText(c.title), normalizeText(localSong.title))
         THEN 3 ELSE 0)
      + (IF includes(c.title, localSong.title) THEN 2 ELSE 0)

\* The candidates the reference ranks: those with a title and an artist whose
\* artist is compatible with the local one.
Ranked ==
    {i \in 1..Len(spotifyResults) :
        WellFormed(spotifyResults[i]) /\ ArtistCompatible(spotifyResults[i])}

TopScore == CHOOSE s \in {ReferenceScore(spotifyResults[i]) : i \in Ranked} :
                \A i \in Ranked : ReferenceScore(spotifyResults[i]) <= s

ReturnedVideo == vidPc = "returned" /\ videoId # NoVideo

\* The keywords the ban on which nothing lifts.
AlwaysBanned ==
    {"live", "cover", "remix", "interview", "teaser", "reaction", "parody",
     "tutorial", "instrumental", "karaoke"}

\* C11 (video keyword filter): a returned video's lower-cased title holds
\* none of live, cover, remix, interview, teaser, reaction, parody, tutorial,
\* instrumental, karaoke, whatever else it holds; it holds "official video"
\* or "music video" only together with "lyric video".
C11_KeywordFilter ==
    ReturnedVideo =>
        LET videoTitleLower == lower(videoId.title) IN
        /\ \A keyword \in AlwaysBanned : ~includes(videoTitleLower, keyword)
        /\ \A keyword \in {"official video", "music video"} :
              includes(videoTitleLower, keyword) => includes(videoTitleLower, "lyric video")

\* The duration the videos endpoint reported, in milliseconds.
Milliseconds(iso) ==
    (((iso.days * 24 + iso.hours) * 60 + iso.minutes) * 60 + iso.seconds) * 1000

\* |D - T| > min(30000, T / 5)
OutOfTolerance(D, T) ==
    IF T >= 150000 THEN Abs(D - T) > 30000 ELSE 5 * Abs(D - T) > T

\* C12 (duration tolerance): with a target duration T and a fetched
\* duration D, an item that got as far as the duration check is rejected by
\* it exactly when |D - T| > min(30000, T / 5).
C12_DurationTolerance ==
    ( /\ lastCheck.verdict \in {"duration", "match", "notPreferred"}
      /\ spotifyDurationMs # 0
      /\ lastCheck.item.details.kind = "duration" )
    => ( lastCheck.verdict = "duration"
           <=> OutOfTolerance(Milliseconds(lastCheck.item.details.iso), spotifyDurationMs) )

\* The template order the claim fixes.
TemplateOrder ==
    <<"official-audio", "lyric-video", "lyrics", "audio", "topic", "general">>

\* C13 (template ordering), for the revision with typed templates: the
\* search requests sent are a prefix of official-audio, lyric-video, lyrics,
\* audio, topic, general; an item that passes every check is returned at
\* once, with no search request after the one that listed it; null is
\* returned only after all six templates were requested.
C13_TemplateOrdering ==
    videoRevision = "strategies" =>
        /\ requests = SubSeq(TemplateOrder, 1, Len(requests))
        /\ lastCheck.verdict = "match" =>
              /\ ReturnedVideo
              /\ videoId = lastCheck.item
              /\ Len(requests) = strategyIndex
        /\ ReturnedVideo => lastCheck = [item |-> videoId, verdict |-> "match"]
        /\ (vidPc = "returned" /\ videoId = NoVideo) => requests = TemplateOrder

\* Reached: the second item of the third template's response is returned.
C13_Witness ==
    /\ videoRevision = "strategies"
    /\ ReturnedVideo
    /\ requests = <<"official-audio", "lyric-video", "lyrics">>
    /\ remaining = 1

\* C14 (transient video-search errors): the call throws only after a search
\* request answered 403; any other search error moves on to the next
\* template.
C14_TransientErrorsAbsorbed ==
    /\ vidPc = "threw" => lastCheck.verdict = "forbidden"
    /\ lastCheck.verdict \in {"network", "server"} =>
          vidPc # "threw" /\ strategyIndex = Len(requests) + 1

(* ---------------------- claims: the tracks service -------------------- *)

\* C15 (error propagation): getTracksForDailyChallenge rejects only for
\* missing or invalid source credentials or with no track resolved; once a
\* track is resolved no error of a source, a 403 of the video search
\* included, makes it reject.
C15_ErrorPropagation ==
    svcPc \in {"threw", "threwVideo", "threwAuth"} =>
        \/ svcPc = "threwAuth"
        \/ tracksForChallenge = <<>>

(* ------------------------- claims: the catalog ------------------------ *)

\* C16 (cool-down non-repetition): in the revision that draws from
\* curated_songs, no track stands in the committed challenges of two dates
\* fewer than 30 days apart.
C16_CoolDown ==
    variant = "catalog" =>
        \A x, y \in Committed :
            ( /\ x.track_id_from_source = y.track_id_from_source
              /\ x.challenge_date < y.challenge_date )
            => y.challenge_date - x.challenge_date >= 30

\* C17 (marking consumed tracks): in the revision that draws from
\* curated_songs, every track of a committed challenge for date D carries a
\* committed last_used_for_challenge mark of D or later, and every committed
\* mark of D belongs to a committed challenge row of D: rows and marks are
\* committed together or not at all.
C17_MarkedWhenCommitted ==
    variant = "catalog" =>
        /\ \A x \in Committed :
              CommittedCurated[x.track_id_from_source].last_used_for_challenge
                  >= x.challenge_date
        /\ \A s \in CatalogIds :
              CommittedCurated[s].last_used_for_challenge # NULL =>
                  \E x \in Committed :
                      /\ x.track_id_from_source = s
                      /\ x.challenge_date = CommittedCurated[s].last_used_for_challenge

\* A run of the catalog revision whose selection came out short.
ShortSelection(r) ==
    variant = "catalog" /\ run[r].fetched /\ run[r].k < DAILY_SONG_COUNT

Undisturbed(r) == ~run[r].overlapped /\ ~run[r].faulted

\* C19 (failure isolation): whatever failed before, a run that meets no
\* other run and no failing statement can begin its transaction, and when
\* it reports success for a day with tracks, that day's challenge is
\* committed.
C19_FailureIsolation ==
    \A r \in Runs :
        Undisturbed(r) =>
            /\ run[r].reason # "beginError"
            /\ ( /\ Settled(r)
                  /\ run[r].outcome = "resolved"
                  /\ run[r].reason # "noTracks" )
               => run[r].orders # {}

(* ------------------------- claims: termination ------------------------ *)

\* C20 (no indefinite blocking): the video search a run waits for
\* eventually returns or throws, even when the YouTube API leaves a request
\* unanswered.
C20_NoIndefiniteBlocking == <>(vidPc \in {"returned", "threw"})

\* C21  Between any two consecutive requests sent to MusicBrainz at least
\* 1100 ms pass, also when the earlier of the two failed or found nothing.
C21_RateLimit ==
    \A i \in 1..(Len(mbSent) - 1) :
        mbSent[i + 1].at - mbSent[i].at >= 1100

\* C22  Every Spotify request of a run carries a token that has not reached
\* its cached expiry time when the request is sent, and the request that
\* follows a 401 answer does not carry the rejected token again.
C22_TokenFreshness ==
    \A i \in 1..Len(tkRequests) :
        /\ tkRequests[i].at < tkRequests[i].expiry
        /\ (i > 1 /\ tkRequests[i - 1].status = 401)
              => tkRequests[i].token # tkRequests[i - 1].token

\* A step leaves the committed rows of every date that has any as they are.
CommittedDatesKept ==
    \A d \in Days :
        (RowsFor(Committed, d) # {})
            => (RowsFor(Committed', d) = RowsFor(Committed, d))

C24_DurationValidated ==
    (ReturnedVideo /\ spotifyDurationMs # 0) =>
        /\ videoId.details.kind = "duration"
        /\ ~OutOfTolerance(Milliseconds(videoId.details.iso), spotifyDurationMs)

\* String.prototype.startsWith, letter case kept.
HasPrefix(text, prefix) ==
    Len(text) >= Len(prefix) /\ SubSeq(text, 1, Len(prefix)) = prefix

\* An id a service handed out: not NULL, none of the enrichment markers.
RealId(text) ==
    /\ text # SqlNull
    /\ text \notin YouTubeStatusMarkers
    /\ \A prefix \in {"SPOTIFY_", "YOUTUBE_", "ERROR_"} : ~HasPrefix(text, prefix)

\* C25 (eligibility of persisted entries): every row the catalog selection
\* hands to the curator was, when selected, active (is_active 1 or NULL),
\* with a real Spotify id and a real YouTube id and with title, artist, album
\* art and duration present; a row that enrichment deactivated or marked
\* 'Youtube_NOT_FOUND' or 'ERROR_DURING_YOUTUBE_ENRICH' is never selected.
C25_EligibleSelection ==
    \A t \in tracksToChallenge :
        /\ t.row.is_active \in {"1", SqlNull}
        /\ RealId(t.row.spotify_track_id)
        /\ RealId(t.row.youtube_video_id)
        /\ t.row.title # SqlNull /\ t.row.artist # SqlNull
        /\ t.row.album_art_url # SqlNull /\ t.row.duration_ms # SqlNull

\* A selection returned a row and left out another one that has a real
\* Spotify id and album art but carries the 'Youtube_NOT_FOUND' marker.
C25_Witness ==
    /\ tracksToChallenge # {}
    /\ \E s \in SongIds :
          /\ catalog[s].youtube_video_id = "Youtube_NOT_FOUND"
          /\ catalog[s].spotify_track_id \in SpotifyTrackIds
          /\ catalog[s].album_art_url # SqlNull
          /\ \A t \in tracksToChallenge : t.id # s

\* C26 (quota stop): when the video search for song i of a batch failed
\* with HTTP 403, the run's loop has stopped, and the run calls
\* markSongYouTubeStatus neither for song i nor for any later song of the
\* batch, so it leaves their youtube_video_id as it was (NULL).
C26_QuotaStop ==
    \A r \in YtRuns :
        ytRun[r].forbiddenAt # 0 =>
            /\ ytRun[r].pc = "done"
            /\ \A j \in ytRun[r].forbiddenAt..Len(ytRun[r].songsToEnrich) :
                  ytRun[r].songsToEnrich[j] \notin ytRun[r].calls

\* C27 (write-once video id): no step changes a youtube_video_id that is not
\* NULL; a found id is never replaced by a marker, nor a marker by an id.
C27_WriteOnceVideoId ==
    [][\A s \in SongIds :
          (catalog[s].youtube_video_id # SqlNull)
              => (catalog'[s].youtube_video_id = catalog[s].youtube_video_id)]_vars

\* A run called markSongYouTubeStatus for a row that another, concurrent run
\* had filled in the meantime, and the row holds a found video id.
C27_Witness ==
    \E r \in YtRuns, s \in SongIds :
        /\ ytRun[r].refused
        /\ s \in ytRun[r].calls
        /\ catalog[s].youtube_video_id \in YouTubeVideoIds

\* C28 (graceful play with a partial challenge): with k songs curated for
\* today, 0 < k < DAILY_SONG_COUNT, a signed-in user who has a stored score
\* for each of the k songs is told challengeCompletedToday = true by
\* GET /daily-challenge/songs, and a further guess is refused with 403 (no
\* database error in the request).
C28_PartialChallengeCompleted ==
    ( /\ lastResponse.authenticated /\ ~lastResponse.dbError
      /\ lastResponse.playedAll
      /\ challengeIds # {} /\ Cardinality(challengeIds) < DAILY_SONG_COUNT )
    => /\ lastResponse.route = "songs" => lastResponse.challengeCompletedToday
       /\ lastResponse.route = "guess" => lastResponse.status \in {400, 403}

\* C29 (transaction closure): a run whose BEGIN TRANSACTION opened a
\* transaction has, once its promise is settled, issued exactly one COMMIT or
\* ROLLBACK that ended a transaction; when no run is active the shared
\* connection has no open transaction; and a run issues ROLLBACK only after
\* its BEGIN opened a transaction.
C29_TransactionClosure ==
    /\ \A r \in Runs :
          (run[r].outcome # "pending" /\ run[r].txBegun) => run[r].ended = 1
    /\ (\A r \in Runs : ~Active(r)) => ~inTransaction
    /\ \A r \in Runs : "ROLLBACK" \in run[r].log => run[r].txBegun

\* C30: while getTracksForDailyChallenge gathers candidates, the list holds
\* at most desiredTrackCount x 3 tracks, whatever desiredTrackCount >= 1 is
\* and however many candidates were held when a fallback started, and a
\* fallback strategy is called only while fewer than desiredTrackCount x 3
\* candidates are held.
C30_OverFetchBound ==
    /\ Len(finalSpotifyTrackCandidates) <= desiredTrackCount * 3
    /\ \A c \in strategyCalls : c.have < desiredTrackCount * 3

====
